---- MODULE Spec2Model ----
(***************************************************************************)
(* Model of the ADT client of abap-tools-ai: the AdtService session        *)
(* (baseUrl, credentials, csrfToken, username), its constructor, the       *)
(* authenticated request engine with its CSRF-token fetch, setCredentials, *)
(* disconnect, getConnectionInfo, createClass, getPackages,                *)
(* getVirtualFolderContents, the getChildren of the package tree and the   *)
(* connectSAP and discoverAdt commands of the extension.                   *)
(* Asynchronous calls are modelled as suspended calls that resume on the   *)
(* response of each fetch.                                                 *)
(***************************************************************************)
EXTENDS Integers, Sequences, FiniteSets, Bags, TLC

(* ------------------------------ bounds --------------------------------- *)

\* number of request-issuing calls that may be in flight at the same time
MaxCalls == 2

\* number of virtualFolder entries in a response
MaxEntries == 2

\* number of SEU_ADT_REPOSITORY_OBJ_NODE elements in a package listing
MaxNodes == 2

(* ------------------------- values of the model ------------------------- *)

\* JavaScript undefined / a defined value, as zero- or one-element tuples
Undefined == <<>>

Some(v) == <<v>>

\* the (user name, password) pairs handed to setCredentials
Logins == {<<"u", "p">>, <<"u", "">>, <<"ad", "p">>}

\* workspace configuration values of abap-tools.defaultHost / defaultPort
ConfigHosts == {Undefined, Some(""), Some("sap.example.com")}

ConfigPorts == {Undefined, Some("8000"), Some("44300")}

\* values a server may put in the x-csrf-token response header
TokenHeaders == {Undefined, Some("ABC123"), Some("XYZ789")}

\* values a server may put in the set-cookie response headers
CookieLists == {<<>>, <<"c1">>, <<"c1", "c2">>}

\* HTTP statuses a server may answer with
Statuses == {200, 299, 300, 401}

\* response bodies a server may answer with
Bodies == {"body"}

\* the answers a server may give to the token fetch: 200 with or without
\* a token and cookies, or 401 with neither
TokenAnswers ==
    [ status : {200}, tokenHeader : TokenHeaders, cookies : CookieLists ]
        \cup { [ status |-> 401, tokenHeader |-> Undefined, cookies |-> <<>> ] }

\* statuses with which a server rejects the credentials
AuthFailureStatuses == {401}

StatusText(status) ==
    CASE status = 200 -> "OK"
      [] status = 299 -> ""
      [] status = 300 -> "Multiple Choices"
      [] status = 401 -> "Unauthorized"
      [] OTHER -> ""

(* --------------------------- pure functions ---------------------------- *)

\* UTF-8 bytes of the strings the model uses
Utf8(s) ==
    CASE s = "u" -> <<117>>
      [] s = "ad" -> <<97, 100>>
      [] s = "p" -> <<112>>
      [] s = ":" -> <<58>>
      [] s = "" -> <<>>
      [] s = "i338631" -> <<105, 51, 51, 56, 54, 51, 49>>
      [] s = "SSss123456*" -> <<83, 83, 115, 115, 49, 50, 51, 52, 53, 54, 42>>

B64Alphabet ==
    << "A", "B", "C", "D", "E", "F", "G", "H", "I", "J", "K", "L", "M",
       "N", "O", "P", "Q", "R", "S", "T", "U", "V", "W", "X", "Y", "Z",
       "a", "b", "c", "d", "e", "f", "g", "h", "i", "j", "k", "l", "m",
       "n", "o", "p", "q", "r", "s", "t", "u", "v", "w", "x", "y", "z",
       "0", "1", "2", "3", "4", "5", "6", "7", "8", "9", "+", "/" >>

B64Char(i) == B64Alphabet[i + 1]

RECURSIVE Base64(_)
\* Buffer.toString("base64"): three bytes become four characters, a final
\* group of one or two bytes is padded with "="
Base64(bytes) ==
    IF Len(bytes) = 0 THEN ""
    ELSE IF Len(bytes) = 1 THEN
        B64Char(bytes[1] \div 4) \o B64Char((bytes[1] % 4) * 16) \o "=="
    ELSE IF Len(bytes) = 2 THEN
        B64Char(bytes[1] \div 4)
            \o B64Char((bytes[1] % 4) * 16 + bytes[2] \div 16)
            \o B64Char((bytes[2] % 16) * 4) \o "="
    ELSE
        B64Char(bytes[1] \div 4)
            \o B64Char((bytes[1] % 4) * 16 + bytes[2] \div 16)
            \o B64Char((bytes[2] % 16) * 4 + bytes[3] \div 64)
            \o B64Char(bytes[3] % 64)
            \o Base64(SubSeq(bytes, 4, Len(bytes)))

\* Buffer.from(`${username}:${password}`).toString("base64")
EncodeCredentials(user, pass) == Base64(Utf8(user) \o Utf8(":") \o Utf8(pass))

\* JavaScript truthiness of an optional string
Truthy(o) == o # Undefined /\ o[1] # ""

\* `${value}` in a template string
Template(o) == IF o = Undefined THEN "undefined" ELSE o[1]

\* response.ok of node-fetch
ResponseOk(status) == status >= 200 /\ status < 300

(* ------------------------------- state --------------------------------- *)

VARIABLES
    phase,            \* "unconstructed", "ready" (constructor returned) or "failed" (it threw)
    cfgHost,          \* configuration value abap-tools.defaultHost
    cfgPort,          \* configuration value abap-tools.defaultPort
    testMode,         \* the isTestMode argument of the last constructor call
    baseUrl,          \* AdtService.baseUrl
    credentials,      \* AdtService.credentials
    csrfToken,        \* AdtService.csrfToken
    username,         \* AdtService.username
    calls,            \* the bag of suspended request-issuing calls
    wire,             \* the HTTP requests sent by the latest step
    info,             \* what getConnectionInfo() returned, if the latest step was one
    outcome,          \* the request() call that ended in the latest step, with its result
    afterDisconnect,  \* disconnect() ran and setCredentials has not been called since
    probeOk           \* a setCredentials call completed normally since the last disconnect

vars == << phase, cfgHost, cfgPort, testMode, baseUrl, credentials, csrfToken,
           username, calls, wire, info, outcome, afterDisconnect, probeOk >>

\* the fields of the AdtService object, as one record
Session ==
    [ baseUrl |-> baseUrl, credentials |-> credentials,
      csrfToken |-> csrfToken, username |-> username ]

\* a call suspended in its real request: it reads its headers, path and
\* body no more, and the record keeps only what the continuation uses;
\* frame holds the locals of the operation that called request(), if it
\* goes on after request() returns
AwaitingReal(op, method, fetched) ==
    [ op |-> op, pc |-> "awaitReal", method |-> method, path |-> "",
      body |-> Undefined, headers |-> <<>>, fetched |-> fetched,
      frame |-> Undefined ]

(* ----------------------------- constructor ----------------------------- *)

TestBaseUrl == "http://test.sap.server:44300/sap/bc/adt"

\* the constructor, had it looked at the host before the test-mode flag
ConstructorThrowsHostFirst(isTestMode, host) == ~Truthy(host)

\* the constructor throws: not in test mode and `!host`
ConstructorThrows(isTestMode, host) == ~isTestMode /\ ~Truthy(host)

\* the baseUrl the constructor assigns when it returns
ConstructorBaseUrl(isTestMode, host, port) ==
    IF isTestMode THEN TestBaseUrl
    ELSE (IF port = Some("44300") THEN "https" ELSE "http")
            \o "://" \o Template(host) \o ":" \o Template(port) \o "/sap/bc/adt"

(* ------------------------------- session ------------------------------- *)

\* getConnectionInfo() as first defined in the file: credentials and token
getConnectionInfoV1(s) ==
    [ url |-> s.baseUrl, username |-> s.username,
      isConnected |-> (s.credentials # "" /\ s.csrfToken # "") ]

\* getConnectionInfo(), had it returned the stored credentials as well
getConnectionInfoWithCredentials(s) ==
    [ url |-> s.baseUrl, username |-> s.username,
      isConnected |-> (s.credentials # ""), credentials |-> s.credentials ]

\* getConnectionInfo(): isConnected is Boolean(this.credentials)
getConnectionInfo(s) ==
    [ url |-> s.baseUrl, username |-> s.username,
      isConnected |-> (s.credentials # "") ]

\* disconnect(), had it also reset the URL
disconnectResetsUrl(s) ==
    [ s EXCEPT !.baseUrl = Undefined, !.credentials = "", !.csrfToken = "",
               !.username = Undefined ]

\* disconnect(), had it kept the cached token
disconnectKeepsToken(s) ==
    [ s EXCEPT !.credentials = "", !.username = Undefined ]

\* disconnect(), had it kept the user name
disconnectKeepsUsername(s) ==
    [ s EXCEPT !.credentials = "", !.csrfToken = "" ]

\* disconnect(): clears credentials, csrfToken and username
disconnect(s) ==
    [ s EXCEPT !.credentials = "", !.csrfToken = "", !.username = Undefined ]

\* setCredentials(), had it stored `user:pass` unencoded
setCredentialsPlain(s, user, pass) ==
    [ s EXCEPT !.username = Some(user), !.credentials = user \o ":" \o pass ]

\* the synchronous part of setCredentials(): stores user name and credentials
setCredentials(s, user, pass) ==
    [ s EXCEPT !.username = Some(user),
               !.credentials = EncodeCredentials(user, pass) ]

(* --------------------------- request engine ---------------------------- *)

\* defaultHeaders, had the base headers been assigned over the caller's
DefaultHeadersBaseWins(creds, extra) ==
    ("Authorization" :> ("Basic " \o creds) @@ "Accept" :> "*/*") @@ extra

\* defaultHeaders of request(), after Object.assign(defaultHeaders, headers)
DefaultHeaders(creds, extra) ==
    extra @@ ("Authorization" :> ("Basic " \o creds) @@ "Accept" :> "*/*")

\* the condition, had request() fetched a token before every request
NeedsTokenFetchAlways(method, token) == TRUE

\* the condition, had request() fetched a token only when none is cached
NeedsTokenFetchWhenEmpty(method, token) == token = ""

\* the condition under which request() fetches a CSRF token first
NeedsTokenFetch(method, token) == method # "GET" \/ token = ""

\* the token fetch: GET /discovery with X-CSRF-Token: Fetch
TokenFetchRequest(base, creds) ==
    [ method |-> "GET", url |-> Template(base) \o "/discovery",
      headers |-> ("Accept" :> "*/*" @@ "Authorization" :> ("Basic " \o creds)
                    @@ "X-CSRF-Token" :> "Fetch"),
      body |-> Undefined ]

\* this.csrfToken = tokenResponse.headers.get("x-csrf-token") || ""
TokenFromResponse(tokenHeader) == IF Truthy(tokenHeader) THEN tokenHeader[1] ELSE ""

\* the cookie, had the first Set-Cookie value been taken
PickCookieFirst(cookies) == cookies[1]

\* cookies[1] || cookies[0]
PickCookie(cookies) ==
    IF Len(cookies) >= 2 /\ cookies[2] # "" THEN cookies[2] ELSE cookies[1]

\* if (cookies && cookies.length > 0) defaultHeaders["Cookie"] = ...
WithCookie(headers, cookies) ==
    IF Len(cookies) > 0 THEN ("Cookie" :> PickCookie(cookies)) @@ headers ELSE headers

\* the token header, had it been set from the token cached before the fetch
WithTokenCached(headers, method, token) ==
    IF method # "GET" THEN ("X-CSRF-Token" :> csrfToken) @@ headers ELSE headers

\* if (method !== "GET") defaultHeaders["X-CSRF-Token"] = this.csrfToken
WithToken(headers, method, token) ==
    IF method # "GET" THEN ("X-CSRF-Token" :> token) @@ headers ELSE headers

\* the real request: fetch(`${this.baseUrl}${path}`, {method, headers, body})
RealRequest(base, path, method, headers, body) ==
    [ method |-> method, url |-> Template(base) \o path, headers |-> headers,
      body |-> body ]

\* request() as first defined in the file: the Error carries no body
RequestOutcomeV1(response) ==
    IF ResponseOk(response.status)
    THEN [ kind |-> "ok", text |-> response.body ]
    ELSE [ kind |-> "error", cause |-> "http", statusText |-> response.statusText,
           status |-> response.status, body |-> "" ]

\* what request() hands to its caller once the real response is there:
\* the body text, or an Error built from statusText, status and the body
RequestOutcome(response) ==
    IF ResponseOk(response.status)
    THEN [ kind |-> "ok", text |-> response.body ]
    ELSE [ kind |-> "error", cause |-> "http", statusText |-> response.statusText,
           status |-> response.status, body |-> response.body ]

\* a rejected fetch: the catch block rethrows the transport error
TransportError == [ kind |-> "error", cause |-> "transport" ]

\* request() up to its first await: the suspended call and the request sent
BeginRequest(op, s, path, method, body, extra) ==
    LET headers == DefaultHeaders(s.credentials, extra)
    IN  IF NeedsTokenFetch(method, s.csrfToken)
        THEN [ call |-> [ op |-> op, pc |-> "awaitToken", method |-> method,
                          path |-> path, body |-> body, headers |-> headers,
                          fetched |-> TRUE, frame |-> Undefined ],
               sent |-> TokenFetchRequest(s.baseUrl, s.credentials) ]
        ELSE [ call |-> AwaitingReal(op, method, FALSE),
               sent |-> RealRequest(s.baseUrl, path, method,
                                    WithToken(headers, method, s.csrfToken), body) ]

(* ------------------------------- actions ------------------------------- *)

\* the session fields become those of the record s
SessionBecomes(s) ==
    /\ baseUrl' = s.baseUrl
    /\ credentials' = s.credentials
    /\ csrfToken' = s.csrfToken
    /\ username' = s.username

\* new AdtService(isTestMode), reading the configuration; extension.ts
\* constructs again, in test mode, when the first construction threw
Construct(isTestMode) ==
    /\ phase \in {"unconstructed", "failed"}
    /\ testMode' = isTestMode
    /\ IF ConstructorThrows(isTestMode, cfgHost)
       THEN /\ phase' = "failed"
            /\ baseUrl' = Undefined
       ELSE /\ phase' = "ready"
            /\ baseUrl' = Some(ConstructorBaseUrl(isTestMode, cfgHost, cfgPort))
    /\ credentials' = ""
    /\ csrfToken' = ""
    /\ username' = Undefined
    /\ wire' = <<>>
    /\ info' = Undefined
    /\ outcome' = Undefined
    /\ UNCHANGED << cfgHost, cfgPort, calls, afterDisconnect, probeOk >>

\* getConnectionInfo()
GetConnectionInfo ==
    /\ phase = "ready"
    /\ info' = Some(getConnectionInfo(Session))
    /\ wire' = <<>>
    /\ outcome' = Undefined
    /\ UNCHANGED << phase, cfgHost, cfgPort, testMode, baseUrl, credentials,
                    csrfToken, username, calls, afterDisconnect, probeOk >>

\* disconnect()
Disconnect ==
    /\ phase = "ready"
    /\ SessionBecomes(disconnect(Session))
    /\ wire' = <<>>
    /\ info' = Undefined
    /\ outcome' = Undefined
    /\ afterDisconnect' = TRUE
    /\ probeOk' = FALSE
    /\ UNCHANGED << phase, cfgHost, cfgPort, testMode, calls >>

\* one more call may be started
MayStart == BagCardinality(calls) < MaxCalls

\* the bag of calls with one call added
Started(call) == calls (+) SetToBag({call})

\* the bag of calls with one call removed
Ended(call) == calls (-) SetToBag({call})

\* setCredentials(user, pass) up to its first await: stores user name and
\* credentials, then discoverService() starts request("/discovery")
SetCredentials(user, pass) ==
    /\ phase = "ready"
    /\ MayStart
    /\ LET s == setCredentials(Session, user, pass)
           begun == BeginRequest("setCredentials", s, "/discovery", "GET",
                                 Undefined, <<>>)
       IN  /\ SessionBecomes(s)
           /\ calls' = Started(begun.call)
           /\ wire' = << begun.sent >>
    /\ info' = Undefined
    /\ outcome' = Undefined
    /\ afterDisconnect' = FALSE
    /\ UNCHANGED << phase, cfgHost, cfgPort, testMode, probeOk >>

\* an operation that is a single request(), up to the first await
StartRequest(op, path, method, body, extra) ==
    /\ phase = "ready"
    /\ MayStart
    /\ LET begun == BeginRequest(op, Session, path, method, body, extra)
       IN  /\ calls' = Started(begun.call)
           /\ wire' = << begun.sent >>
    /\ info' = Undefined
    /\ outcome' = Undefined
    /\ UNCHANGED << phase, cfgHost, cfgPort, testMode, baseUrl, credentials,
                    csrfToken, username, afterDisconnect, probeOk >>

\* getRepository(objectPath): request(`/repository/${objectPath}`)
GetRepository ==
    StartRequest("getRepository", "/repository/" \o "x", "GET", Undefined, <<>>)

\* runAtcCheck(objectUri): request(`/atc/runs?objectUri=...`, "POST")
RunAtcCheck ==
    StartRequest("runAtcCheck", "/atc/runs?objectUri=" \o "x", "POST",
                 Undefined, <<>>)

\* the token fetch of a call is answered: the token is stored, the cookie
\* and token headers are set and the real request is sent; the status of
\* the answer is not looked at
TokenResponse(call, status, tokenHeader, cookies) ==
    /\ call.pc = "awaitToken"
    /\ LET token == TokenFromResponse(tokenHeader)
           headers == WithToken(WithCookie(call.headers, cookies), call.method, token)
       IN  /\ csrfToken' = token
           /\ calls' = Ended(call) (+)
                        SetToBag({[ AwaitingReal(call.op, call.method, TRUE)
                                        EXCEPT !.frame = call.frame ]})
           /\ wire' = << RealRequest(baseUrl, call.path, call.method, headers,
                                     call.body) >>
    /\ info' = Undefined
    /\ outcome' = Undefined
    /\ UNCHANGED << phase, cfgHost, cfgPort, testMode, baseUrl, credentials,
                    username, afterDisconnect, probeOk >>

\* a call ends: its result goes to the caller; a setCredentials call that
\* ends normally has probed the server
Finish(call, response, result) ==
    /\ outcome' = Some([ op |-> call.op, fetched |-> call.fetched,
                         real |-> (call.pc = "awaitReal"),
                         response |-> response,
                         result |-> result,
                         frame |-> call.frame,
                         ended |-> TRUE ])
    /\ calls' = Ended(call)
    /\ probeOk' = IF call.op = "setCredentials" /\ result.kind = "ok"
                  THEN TRUE ELSE probeOk
    /\ wire' = <<>>
    /\ info' = Undefined
    /\ UNCHANGED << phase, cfgHost, cfgPort, testMode, baseUrl, credentials,
                    csrfToken, username, afterDisconnect >>

(* ----------------------------- createClass ----------------------------- *)

\* the class details handed to createClass
ClassDetailsSet ==
    { [ name |-> "ZCL_A", description |-> "d", package |-> "ZTEST",
        superclass |-> Undefined, interfaces |-> Undefined ],
      [ name |-> "Z A", description |-> "d", package |-> "ZTEST",
        superclass |-> Some("ZCL_B"), interfaces |-> Some(<< "ZIF_A" >>) ] }

\* encodeURIComponent on the class names the model uses
EncodeURIComponent(s) ==
    CASE s = "ZCL_A" -> "ZCL_A"
      [] s = "Z A" -> "Z%20A"

\* classDetails.interfaces?.map(...) || "": the interfaces that are written
InterfacesOf(details) ==
    IF details.interfaces = Undefined THEN <<>> ELSE details.interfaces[1]

\* the class:abapClass document posted to /oo/classes
ClassDocument(details) ==
    [ root |-> "class:abapClass", name |-> details.name,
      description |-> details.description, packageRef |-> details.package,
      superClass |-> IF Truthy(details.superclass) THEN details.superclass[1] ELSE "",
      interfaces |-> InterfacesOf(details) ]

\* generateClassSource(classDetails): definition and implementation skeleton
generateClassSource(details) ==
    [ root |-> "source", definition |-> details.name,
      interfaces |-> InterfacesOf(details), implementation |-> details.name ]

\* the request of each step of createClass
CreateClassRequest(step, details) ==
    CASE step = "validate" ->
            [ path |-> "/oo/validation/objectname?objname="
                          \o EncodeURIComponent(details.name) \o "&type=CLAS/OC",
              method |-> "GET", body |-> Undefined,
              extra |-> ("Accept" :> "application/json") ]
      [] step = "create" ->
            [ path |-> "/oo/classes", method |-> "POST",
              body |-> Some(ClassDocument(details)),
              extra |-> ("Content-Type" :> "application/vnd.sap.adt.oo.classes.v2+xml"
                          @@ "Accept" :> "application/vnd.sap.adt.oo.classes.v2+xml") ]
      [] step = "source" ->
            [ path |-> "/oo/classes/" \o details.name \o "/source/main",
              method |-> "PUT", body |-> Some(generateClassSource(details)),
              extra |-> ("Content-Type" :> "text/plain; charset=utf-8"
                          @@ "Accept" :> "text/plain") ]

\* the step createClass goes on with when a step's request() has returned
NextStep(step) ==
    CASE step = "validate" -> Some("create")
      [] step = "create" -> Some("source")
      [] step = "source" -> Undefined

\* createClass, had it gone on after a request() that threw on the status
CreateClassAbortsOnTransportOnly(result) ==
    result.kind = "error" /\ result.cause = "transport"

\* an awaited request() that throws ends createClass: nothing catches it
CreateClassAborts(result) == result.kind = "error"

\* an operation starts and calls request() for the first time
StartOperation(op, frame, req) ==
    /\ phase = "ready"
    /\ MayStart
    /\ LET begun == BeginRequest(op, Session, req.path, req.method, req.body,
                                 req.extra)
       IN  /\ calls' = Started([ begun.call EXCEPT !.frame = frame ])
           /\ wire' = << begun.sent >>
    /\ info' = Undefined
    /\ outcome' = Undefined
    /\ UNCHANGED << phase, cfgHost, cfgPort, testMode, baseUrl, credentials,
                    csrfToken, username, afterDisconnect, probeOk >>

\* a request() of an operation has returned and the operation calls
\* request() again
Continue(call, frame, response, result, req) ==
    /\ LET begun == BeginRequest(call.op, Session, req.path, req.method, req.body,
                                 req.extra)
       IN  /\ calls' = Ended(call) (+) SetToBag({[ begun.call EXCEPT !.frame = frame ]})
           /\ wire' = << begun.sent >>
    /\ outcome' = Some([ op |-> call.op, fetched |-> call.fetched,
                         real |-> (call.pc = "awaitReal"),
                         response |-> response,
                         result |-> result,
                         frame |-> call.frame,
                         ended |-> FALSE ])
    /\ info' = Undefined
    /\ UNCHANGED << phase, cfgHost, cfgPort, testMode, baseUrl, credentials,
                    csrfToken, username, afterDisconnect, probeOk >>

\* createClass(classDetails) up to its first await: the validation request
CreateClass(details) ==
    StartOperation("createClass", Some([ step |-> "validate", details |-> details ]),
                   CreateClassRequest("validate", details))

\* createClass, had it deleted the class again when the source PUT failed
CreateClassResumeWithRollback(call, response, result) ==
    LET frame == call.frame[1]
        next == NextStep(frame.step)
    IN  IF CreateClassAborts(result) /\ frame.step = "source"
        THEN Continue(call, Some([ frame EXCEPT !.step = "validate" ]), response, result,
                      [ path |-> "/oo/classes/" \o frame.details.name,
                        method |-> "DELETE", body |-> Undefined, extra |-> <<>> ])
        ELSE IF CreateClassAborts(result) THEN Finish(call, response, result)
        ELSE IF next = Undefined THEN Finish(call, response, [ kind |-> "ok" ])
        ELSE Continue(call, Some([ frame EXCEPT !.step = next[1] ]), response, result,
                      CreateClassRequest(next[1], frame.details))

\* a request() of createClass has ended: createClass throws what it threw,
\* or goes on with the next step, or returns after the last
CreateClassResume(call, response, result) ==
    LET frame == call.frame[1]
        next == NextStep(frame.step)
    IN  IF CreateClassAborts(result) THEN Finish(call, response, result)
        ELSE IF next = Undefined THEN Finish(call, response, [ kind |-> "ok" ])
        ELSE Continue(call, Some([ frame EXCEPT !.step = next[1] ]), response, result,
                      CreateClassRequest(next[1], frame.details))

(* --------------------------- virtual folders --------------------------- *)

\* Names, URIs and attribute values are texts: sequences of atoms, an atom
\* being one of the characters ".", "/" and the digits, or a word that
\* holds none of them.

\* the characters "0" .. "9"
Digits == << "0", "1", "2", "3", "4", "5", "6", "7", "8", "9" >>

\* String.prototype.startsWith
StartsWith(text, prefix) ==
    Len(text) >= Len(prefix) /\ SubSeq(text, 1, Len(prefix)) = prefix

\* String.prototype.substring(n)
Substring(text, n) == SubSeq(text, n + 1, Len(text))

RECURSIVE LastSegmentFrom(_, _)
\* the atoms of text after its last "/" at or before position i
LastSegmentFrom(text, i) ==
    IF i = 0 \/ text[i] = "/" THEN SubSeq(text, i + 1, Len(text))
    ELSE LastSegmentFrom(text, i - 1)

\* packageName.split("/") and its last part
ActualPackageName(packageName) == LastSegmentFrom(packageName, Len(packageName))

RECURSIVE ParseIntFrom(_, _, _)
\* the value of the decimal digits of text from position i on, after acc
ParseIntFrom(text, i, acc) ==
    IF i > Len(text) \/ ~(\E d \in 1..10 : Digits[d] = text[i]) THEN acc
    ELSE ParseIntFrom(text, i + 1,
                      acc * 10 + (CHOOSE d \in 1..10 : Digits[d] = text[i]) - 1)

\* parseInt(text, 10) on a text that starts with a digit
ParseInt(text) == ParseIntFrom(text, 1, 0)

\* a || b on optional texts and strings: b when a is absent or empty
OrElse(a, b) == IF a = Undefined \/ Len(a[1]) = 0 THEN b ELSE a[1]

\* a <vfs:preselection facet=...><vfs:value>...</vfs:value> element
Preselection(facet, value) == [ facet |-> facet, value |-> value ]

\* the else branch as it stands commented out: type preselects the word "type"
VirtualFoldersRequestOtherV1(facetValue, name, actualPackageName, groupName) ==
    [ preselections |-> << Preselection(facetValue, name),
                           Preselection("package", << ".", "." >> \o actualPackageName),
                           Preselection("type", << "type" >>) >>,
      facetorder |-> <<>> ]

\* the request document of the else branch (no facet order)
VirtualFoldersRequestOther(facetValue, name, actualPackageName, groupName) ==
    [ preselections |-> << Preselection(facetValue, name),
                           Preselection("package", << ".", "." >> \o actualPackageName),
                           Preselection("type", groupName) >>,
      facetorder |-> <<>> ]

\* the TYPE branch, had it preselected the type by the node's own name
VirtualFoldersRequestTypeByName(name, actualPackageName, parentName) ==
    [ preselections |-> << Preselection("group", << "SOURCE_LIBRARY" >>),
                           Preselection("package", << ".", "." >> \o actualPackageName),
                           Preselection("type", name) >>,
      facetorder |-> <<>> ]

\* the request document of the TYPE branch
VirtualFoldersRequestType(name, actualPackageName, parentName) ==
    [ preselections |-> << Preselection("group", << "SOURCE_LIBRARY" >>),
                           Preselection("package", << ".", "." >> \o actualPackageName),
                           Preselection("type", parentName) >>,
      facetorder |-> <<>> ]

\* the package branch, had it asked for the facets of the PACKAGE branch
VirtualFoldersRequestPackageShort(facetValue, name) ==
    [ preselections |-> << Preselection(facetValue, name) >>,
      facetorder |-> << "group", "type" >> ]

\* the request document of the package branch
VirtualFoldersRequestPackage(facetValue, name) ==
    [ preselections |-> << Preselection(facetValue, name) >>,
      facetorder |-> << "package", "group", "type" >> ]

\* the vfs:virtualFoldersRequest document getVirtualFolderContents posts
VirtualFoldersRequest(packageName, facetValue, name, groupName, parentName) ==
    LET actualPackageName == ActualPackageName(packageName)
    IN  IF facetValue = "package" THEN VirtualFoldersRequestPackage(facetValue, name)
        ELSE IF facetValue = "PACKAGE" THEN
            [ preselections |-> << Preselection("package", << ".", "." >> \o name) >>,
              facetorder |-> << "group", "type" >> ]
        ELSE IF facetValue = "GROUP" THEN
            [ preselections |-> << Preselection(facetValue, name),
                                   Preselection("package",
                                                << ".", "." >> \o actualPackageName) >>,
              facetorder |-> << "type" >> ]
        ELSE IF facetValue = "TYPE" THEN
            VirtualFoldersRequestType(name, actualPackageName, parentName)
        ELSE VirtualFoldersRequestOther(facetValue, name, actualPackageName, groupName)

\* the headers getVirtualFolderContents passes to request()
VirtualFoldersHeaders ==
    "Accept" :> "application/vnd.sap.adt.repository.virtualfolders.result.v1+xml"
    @@ "Content-Type" :> "application/vnd.sap.adt.repository.virtualfolders.request.v1+xml"
    @@ "User-Agent" :> "vscode-abap-tools"
    @@ "X-sap-adt-profiling" :> "server-time"

\* the request() call of getVirtualFolderContents
VirtualFoldersCall(packageName, facetValue, name, groupName, parentName) ==
    [ path |-> "/repository/informationsystem/virtualfolders/contents",
      method |-> "POST",
      body |-> Some(VirtualFoldersRequest(packageName, facetValue, name, groupName,
                                          parentName)),
      extra |-> VirtualFoldersHeaders ]

\* result?.virtualFoldersResult?.virtualFolder || ...?.object || []
ResultEntries(document) ==
    IF document.root # "virtualFoldersResult" THEN <<>>
    ELSE IF Len(document.virtualFolder) > 0 THEN document.virtualFolder
    ELSE document.object

\* the VirtualFolder pushed for an entry that has attributes
VirtualFolderOf(attrs, facetValue) ==
    [ name |-> attrs.name[1],
      displayName |-> OrElse(attrs.displayName, attrs.name[1]),
      counter |-> ParseInt(OrElse(attrs.counter, << "0" >>)),
      facet |-> IF Truthy(attrs.facet) THEN attrs.facet[1] ELSE facetValue,
      vituri |-> attrs.vituri,
      isExpandable |-> (attrs.expandable = Some("true")) ]

RECURSIVE VirtualFoldersOf(_, _)
\* objectArray.forEach: entries without attributes are passed over
VirtualFoldersOf(entries, facetValue) ==
    IF Len(entries) = 0 THEN <<>>
    ELSE IF entries[1] = Undefined THEN VirtualFoldersOf(Tail(entries), facetValue)
    ELSE << VirtualFolderOf(entries[1][1], facetValue) >>
            \o VirtualFoldersOf(Tail(entries), facetValue)

\* obj.$.name.value throws on an entry that has attributes but no name
NameMissing(entries) ==
    \E i \in 1..Len(entries) : entries[i] # Undefined /\ entries[i][1].name = Undefined

\* an error thrown while the response is decoded
DecodeError == [ kind |-> "error", cause |-> "decode" ]

\* getVirtualFolderContents, had it taken every attribute value for true
ParseVirtualFoldersAllExpandable(document, facetValue) ==
    IF document.root = "#malformed" \/ NameMissing(ResultEntries(document))
    THEN DecodeError
    ELSE [ kind |-> "ok",
           items |-> [ i \in 1..Len(VirtualFoldersOf(ResultEntries(document), facetValue)) |->
                          [ VirtualFoldersOf(ResultEntries(document), facetValue)[i]
                                EXCEPT !.isExpandable = TRUE ] ] ]

\* what getVirtualFolderContents makes of the response text: the parser
\* throws on text that is no XML, the loop throws on a nameless entry
ParseVirtualFolders(document, facetValue) ==
    IF document.root = "#malformed" \/ NameMissing(ResultEntries(document))
    THEN DecodeError
    ELSE [ kind |-> "ok", items |-> VirtualFoldersOf(ResultEntries(document), facetValue) ]

\* a request() of getVirtualFolderContents has ended: it rethrows an
\* error, else it decodes the text and returns the items
GetVirtualFolderContentsResume(call, response, result) ==
    IF result.kind = "error" THEN Finish(call, response, result)
    ELSE Finish(call, response,
                ParseVirtualFolders(result.text, call.frame[1].query.facetValue))

\* getVirtualFolderContents(...) up to its first await
GetVirtualFolderContents(packageName, facetValue, name, groupName, parentName) ==
    StartOperation("getVirtualFolderContents",
                   Some([ query |-> [ packageName |-> packageName,
                                      facetValue |-> facetValue, name |-> name,
                                      groupName |-> groupName,
                                      parentName |-> parentName ] ]),
                   VirtualFoldersCall(packageName, facetValue, name, groupName,
                                      parentName))

(* ---------------------------- the tree view ---------------------------- *)

\* what a child keeps of the PackageItem it was listed under
ParentOf(element) ==
    [ label |-> element.label, type |-> element.type, facet |-> element.facet ]

\* new PackageItem(label, None): a message shown in place of children
MessageItem(label) ==
    [ label |-> label, collapsible |-> FALSE, packageUri |-> Undefined,
      type |-> "package", counter |-> Undefined, facet |-> Undefined,
      parent |-> Undefined, vituri |-> Undefined ]

\* the PackageItem of a package of the root listing
RootItem(name, uri) ==
    [ label |-> name, collapsible |-> TRUE, packageUri |-> Some(uri),
      type |-> "package", counter |-> Some(0), facet |-> Some("package"),
      parent |-> Undefined, vituri |-> Undefined ]

\* the PackageItem made of a virtual folder listed under element
FolderItem(folder, element, vituri) ==
    [ label |-> folder.name, collapsible |-> TRUE, packageUri |-> element.packageUri,
      type |-> "virtualFolder", counter |-> Some(folder.counter),
      facet |-> Some(folder.facet), parent |-> Some(ParentOf(element)),
      vituri |-> vituri ]

\* element.parent?.label || ""
ParentLabel(element) ==
    IF element.parent = Undefined THEN <<>> ELSE element.parent[1].label

\* folder.facet === 'PACKAGE' && folder.name.startsWith('..')
IsIndirection(folder) ==
    folder.facet = "PACKAGE" /\ StartsWith(folder.name, << ".", "." >>)

\* the arguments of the three getVirtualFolderContents calls of getChildren
PackageQuery(element) ==
    [ packageName |-> element.packageUri[1], facetValue |-> "package",
      name |-> element.label, groupName |-> << "SOURCE_LIBRARY" >>,
      parentName |-> <<>> ]

FollowUpQuery(element, folder) ==
    [ packageName |-> element.packageUri[1], facetValue |-> "PACKAGE",
      name |-> Substring(folder.name, 2), groupName |-> << "SOURCE_LIBRARY" >>,
      parentName |-> ParentLabel(element) ]

FolderQuery(element) ==
    [ packageName |-> element.packageUri[1], facetValue |-> element.facet[1],
      name |-> element.label, groupName |-> element.label,
      parentName |-> ParentLabel(element) ]

\* the request() call getVirtualFolderContents makes for a query
CallOf(query) ==
    VirtualFoldersCall(query.packageName, query.facetValue, query.name,
                       query.groupName, query.parentName)

RECURSIVE FoldersToItems(_, _, _)
\* virtualFolders.map(folder => new PackageItem(...)); the items made of
\* the children of an indirection node are given no vituri
FoldersToItems(folders, element, withVituri) ==
    IF Len(folders) = 0 THEN <<>>
    ELSE << FolderItem(folders[1], element,
                       IF withVituri THEN folders[1].vituri ELSE Undefined) >>
            \o FoldersToItems(Tail(folders), element, withVituri)

RECURSIVE PlainPrefix(_)
\* the length of the run of folders the loop pushes before it meets an
\* indirection node or the end
PlainPrefix(folders) ==
    IF Len(folders) = 0 \/ IsIndirection(folders[1]) THEN 0
    ELSE 1 + PlainPrefix(Tail(folders))

\* getChildren returns: a returned array ends the call normally
Return(call, response, items) ==
    Finish(call, response, [ kind |-> "ok", items |-> items ])

\* the for loop over the folders of a package, from where it stands: it
\* pushes folders until it meets an indirection node, for which it awaits
\* a follow-up query, or until the end, where getChildren returns
Loop(call, response, result, processed, pending) ==
    LET frame == call.frame[1]
        plain == PlainPrefix(pending)
        pushed == processed
                    \o FoldersToItems(SubSeq(pending, 1, plain), frame.element, TRUE)
    IN  IF plain = Len(pending) THEN Return(call, response, pushed)
        ELSE Continue(call,
                      Some([ frame EXCEPT
                                !.query = FollowUpQuery(frame.element, pending[plain + 1]),
                                !.stage = "followUp",
                                !.folder = Some(pending[plain + 1]),
                                !.pending = SubSeq(pending, plain + 2, Len(pending)),
                                !.processed = pushed ]),
                      response, result,
                      CallOf(FollowUpQuery(frame.element, pending[plain + 1])))

\* getChildren, had it put the folders a follow-up query returns through
\* the loop as well
GetChildrenResumeRequeues(call, response, result) ==
    LET frame == call.frame[1]
        parsed == IF result.kind = "error" THEN result
                  ELSE ParseVirtualFolders(result.text, frame.query.facetValue)
    IN  IF parsed.kind = "error"
        THEN Return(call, response, << MessageItem(<< "Error loading items" >>) >>)
        ELSE IF frame.stage = "package"
        THEN Loop(call, response, result, <<>>, parsed.items)
        ELSE IF frame.stage = "followUp"
        THEN Loop(call, response, result, frame.processed,
                  parsed.items \o frame.pending)
        ELSE Return(call, response, FoldersToItems(parsed.items, frame.element, TRUE))

\* a getVirtualFolderContents call of getChildren has ended: an error is
\* caught and shown as a message item; else the folders are mapped to
\* items, through the loop when a package is expanded
GetChildrenResume(call, response, result) ==
    LET frame == call.frame[1]
        parsed == IF result.kind = "error" THEN result
                  ELSE ParseVirtualFolders(result.text, frame.query.facetValue)
    IN  IF parsed.kind = "error"
        THEN Return(call, response, << MessageItem(<< "Error loading items" >>) >>)
        ELSE IF frame.stage = "package"
        THEN Loop(call, response, result, <<>>, parsed.items)
        ELSE IF frame.stage = "followUp"
        THEN Loop(call, response, result,
                  frame.processed \o FoldersToItems(parsed.items, frame.element, FALSE),
                  frame.pending)
        ELSE Return(call, response, FoldersToItems(parsed.items, frame.element, TRUE))

\* getChildren(element) for a given element, up to its first await: a
\* message item at once when not connected, else the first query
GetChildren(element) ==
    IF ~getConnectionInfo(Session).isConnected
    THEN /\ phase = "ready"
         /\ outcome' = Some([ op |-> "getChildren", fetched |-> FALSE, real |-> FALSE,
                              response |-> Undefined,
                              result |-> [ kind |-> "ok",
                                           items |-> << MessageItem(<< "Not connected to SAP" >>) >> ],
                              frame |-> Some([ element |-> element ]),
                              ended |-> TRUE ])
         /\ wire' = <<>>
         /\ info' = Undefined
         /\ UNCHANGED << phase, cfgHost, cfgPort, testMode, baseUrl, credentials,
                         csrfToken, username, calls, afterDisconnect, probeOk >>
    ELSE LET query == IF element.type = "package" THEN PackageQuery(element)
                      ELSE FolderQuery(element)
         IN  StartOperation("getChildren",
                            Some([ element |-> element, query |-> query,
                                   stage |-> IF element.type = "package"
                                             THEN "package" ELSE "folder",
                                   folder |-> Undefined, pending |-> <<>>,
                                   processed |-> <<>> ]),
                            CallOf(query))

(* ----------------------------- getPackages ----------------------------- *)

\* the path of the listing request, with and without a parent URI
PackagesPath(parentUri) ==
    "/repository/nodestructure?parent_uri=/sap/bc/adt/repository/informationsystem/mainpackages"
        \o (IF Truthy(parentUri) THEN "/" \o parentUri[1] ELSE "")

\* the path of the second request; the string is no template, ${true}
\* stands in it as written
PackagesPath2 ==
    "/repository/nodestructure?parent_type=DEVC/K&withShortDescriptions=${true}&parent_name=ZTEST61"

\* the two request() calls of getPackages: POSTs with no body, no headers
PackagesRequest(step, parentUri) ==
    [ path |-> IF step = "list" THEN PackagesPath(parentUri) ELSE PackagesPath2,
      method |-> "POST", body |-> Undefined, extra |-> <<>> ]

\* the chain ...?.["asx:values"]?.DATA.TREE_CONTENT.SEU_ADT_REPOSITORY_OBJ_NODE
\* reads a property of undefined: asx:values is there, DATA or
\* TREE_CONTENT is not
ShapeThrows(document) ==
    /\ document.root = "asx:abap"
    /\ document.values # Undefined
    /\ \/ document.values[1].DATA = Undefined
       \/ document.values[1].DATA[1].TREE_CONTENT = Undefined

\* the nodes of the listing, [] when the optional chain gives undefined
NodesOf(document) ==
    IF document.root # "asx:abap" \/ document.values = Undefined THEN <<>>
    ELSE document.values[1].DATA[1].TREE_CONTENT[1]

\* the node filter, had it kept every node that has the two elements,
\* empty or not
KeepsNodeIfDefined(node) == node.OBJECT_NAME # Undefined /\ node.OBJECT_URI # Undefined

\* if (node.OBJECT_NAME && node.OBJECT_URI)
KeepsNode(node) ==
    OrElse(node.OBJECT_NAME, <<>>) # <<>> /\ OrElse(node.OBJECT_URI, <<>>) # <<>>

\* the AdtPackage pushed for a node
PackageOf(node) ==
    [ name |-> node.OBJECT_NAME[1], uri |-> node.OBJECT_URI[1],
      type |-> OrElse(node.OBJECT_TYPE, << "DEVC", "/", "K" >>),
      description |-> node.OBJECT_DESCRIPTION,
      whatisclicked |-> "package", hasChildrenOfSameFacet |-> "true" ]

RECURSIVE PackagesOf(_)
\* nodeArray.forEach: the packages of the nodes that are kept, in order
PackagesOf(nodes) ==
    IF Len(nodes) = 0 THEN <<>>
    ELSE (IF KeepsNode(nodes[1]) THEN << PackageOf(nodes[1]) >> ELSE <<>>)
            \o PackagesOf(Tail(nodes))

\* what getPackages makes of the text of the listing: the parser throws on
\* text that is no XML, the chain throws on a missing DATA or TREE_CONTENT
ParsePackages(document) ==
    IF document.root = "#malformed" \/ ShapeThrows(document) THEN DecodeError
    ELSE [ kind |-> "ok", items |-> PackagesOf(NodesOf(document)) ]

\* throw new Error("Not connected to SAP")
NotConnectedError ==
    [ kind |-> "error", cause |-> "notConnected", message |-> "Not connected to SAP" ]

\* getPackages, had it sent the listing request whatever the credentials
GetPackagesUnguarded(parentUri) ==
    StartOperation("getPackages",
                   Some([ step |-> "list", parentUri |-> parentUri,
                          listing |-> Undefined ]),
                   PackagesRequest("list", parentUri))

\* getPackages(parentUri) up to its first await: it throws at once without
\* credentials, else it sends the listing request
GetPackages(parentUri) ==
    IF credentials = ""
    THEN /\ phase = "ready"
         /\ outcome' = Some([ op |-> "getPackages", fetched |-> FALSE, real |-> FALSE,
                              response |-> Undefined,
                              result |-> NotConnectedError,
                              frame |-> Some([ step |-> "list", parentUri |-> parentUri,
                                               listing |-> Undefined ]),
                              ended |-> TRUE ])
         /\ wire' = <<>>
         /\ info' = Undefined
         /\ UNCHANGED << phase, cfgHost, cfgPort, testMode, baseUrl, credentials,
                         csrfToken, username, calls, afterDisconnect, probeOk >>
    ELSE StartOperation("getPackages",
                        Some([ step |-> "list", parentUri |-> parentUri,
                               listing |-> Undefined ]),
                        PackagesRequest("list", parentUri))

\* a request() of getPackages has ended: an error is rethrown; after the
\* listing the second request is sent; after that the listing is decoded
GetPackagesResume(call, response, result) ==
    LET frame == call.frame[1]
    IN  IF result.kind = "error" THEN Finish(call, response, result)
        ELSE IF frame.step = "list"
        THEN Continue(call,
                      Some([ frame EXCEPT !.step = "detail",
                                          !.listing = Some(result.text) ]),
                      response, result, PackagesRequest("detail", frame.parentUri))
        ELSE Finish(call, response, ParsePackages(frame.listing[1]))

(* ----------------------- the commands of the extension ----------------- *)

\* what showInformationMessage(..., "Connect", "Cancel") resolves to
Selections == { Undefined, Some("Connect"), Some("Cancel") }

\* what the user name prompt resolves to: undefined when it is cancelled
EnteredNames == { Undefined, Some(""), Some("u"), Some("ad") }

\* what the password prompt resolves to
EnteredPasswords == { Undefined, Some(""), Some("p") }

\* the locals username and password of the connectSAP callback when it
\* reaches `if (username && password)`: both were assigned literals after
\* the prompts
ConnectLocals(enteredName, enteredPassword) ==
    [ username |-> Some("i338631"), password |-> Some("SSss123456*") ]

\* the locals of the discoverAdt callback: what the prompts resolved to
DiscoverLocals(enteredName, enteredPassword) ==
    [ username |-> enteredName, password |-> enteredPassword ]

\* discoverService(): request("/discovery")
DiscoveryRequest ==
    [ path |-> "/discovery", method |-> "GET", body |-> Undefined, extra |-> <<>> ]

\* a command callback returns without having called the service
Declined(command) ==
    /\ phase = "ready"
    /\ outcome' = Some([ op |-> command, fetched |-> FALSE, real |-> FALSE,
                         response |-> Undefined,
                         result |-> [ kind |-> "declined" ],
                         frame |-> Undefined,
                         ended |-> TRUE ])
    /\ wire' = <<>>
    /\ info' = Undefined
    /\ UNCHANGED << phase, cfgHost, cfgPort, testMode, baseUrl, credentials,
                    csrfToken, username, calls, afterDisconnect, probeOk >>

\* if (username && password) { await adtService.setCredentials(username,
\* password); ... }, up to the first await of setCredentials
Login(command, locals) ==
    IF Truthy(locals.username) /\ Truthy(locals.password)
    THEN /\ phase = "ready"
         /\ MayStart
         /\ LET s == setCredentials(Session, locals.username[1], locals.password[1])
                begun == BeginRequest(command, s, DiscoveryRequest.path,
                                      DiscoveryRequest.method, DiscoveryRequest.body,
                                      DiscoveryRequest.extra)
            IN  /\ SessionBecomes(s)
                /\ calls' = Started([ begun.call EXCEPT
                                        !.frame = Some([ step |-> "setCredentials" ]) ])
                /\ wire' = << begun.sent >>
         /\ info' = Undefined
         /\ outcome' = Undefined
         /\ afterDisconnect' = FALSE
         /\ UNCHANGED << phase, cfgHost, cfgPort, testMode, probeOk >>
    ELSE Declined(command)

\* the command abap-tools.connectSAP, given what the dialog and the two
\* prompts resolve to
ConnectSAP(proceed, enteredName, enteredPassword) ==
    IF proceed = Some("Connect")
    THEN Login("connectSAP", ConnectLocals(enteredName, enteredPassword))
    ELSE Declined("connectSAP")

\* the command abap-tools.discoverAdt, given what the two prompts resolve to
DiscoverAdt(enteredName, enteredPassword) ==
    Login("discoverAdt", DiscoverLocals(enteredName, enteredPassword))

\* statusBarItem.text after the try block of connectSAP; discoverAdt
\* leaves the status bar alone
StatusBarAfter(command, kind) ==
    IF command # "connectSAP" THEN Undefined
    ELSE IF kind = "ok" THEN Some("$(check) SAP Connected")
    ELSE Some("$(alert) SAP Disconnected")

\* setCredentials has returned to the command, which calls discoverService()
SetCredentialsReturned(call, response, result) ==
    /\ LET begun == BeginRequest(call.op, Session, DiscoveryRequest.path,
                                 DiscoveryRequest.method, DiscoveryRequest.body,
                                 DiscoveryRequest.extra)
       IN  /\ calls' = Ended(call) (+)
                        SetToBag({[ begun.call EXCEPT
                                      !.frame = Some([ step |-> "discoverService" ]) ]})
           /\ wire' = << begun.sent >>
    /\ outcome' = Some([ op |-> call.op, fetched |-> call.fetched,
                         real |-> (call.pc = "awaitReal"),
                         response |-> response,
                         result |-> result,
                         frame |-> call.frame,
                         ended |-> FALSE ])
    /\ probeOk' = TRUE
    /\ info' = Undefined
    /\ UNCHANGED << phase, cfgHost, cfgPort, testMode, baseUrl, credentials,
                    csrfToken, username, afterDisconnect >>

\* a request() of a command has ended: an error goes to the catch block of
\* the command; after setCredentials comes discoverService(), after that
\* the command returns
CommandResume(call, response, result) ==
    IF result.kind = "error"
    THEN Finish(call, response,
                [ kind |-> "error", cause |-> result.cause,
                  statusBar |-> StatusBarAfter(call.op, "error") ])
    ELSE IF call.frame[1].step = "setCredentials"
    THEN SetCredentialsReturned(call, response, result)
    ELSE Finish(call, response,
                [ kind |-> "ok", statusBar |-> StatusBarAfter(call.op, "ok") ])

\* a request() has ended: its result goes to the operation that awaits it
Resume(call, response, result) ==
    IF call.op = "createClass" THEN CreateClassResume(call, response, result)
    ELSE IF call.op = "getPackages" THEN GetPackagesResume(call, response, result)
    ELSE IF call.op = "getChildren" THEN GetChildrenResume(call, response, result)
    ELSE IF call.op = "getVirtualFolderContents"
    THEN GetVirtualFolderContentsResume(call, response, result)
    ELSE IF call.op \in { "connectSAP", "discoverAdt" }
    THEN CommandResume(call, response, result)
    ELSE Finish(call, response, result)

\* the token fetch is rejected (transport error): request() rethrows
TokenFetchFails(call) ==
    /\ call.pc = "awaitToken"
    /\ Resume(call, Undefined, TransportError)

\* the real request is answered: the body is read, then request() returns
\* the text or throws
RealResponse(call, status, body) ==
    /\ call.pc = "awaitReal"
    /\ LET response == [ status |-> status, statusText |-> StatusText(status),
                         body |-> body ]
       IN  Resume(call, Some(response), RequestOutcome(response))

\* a rejected real request, had request() sent it once more
RealFetchFailsResends(call) ==
    /\ call.pc = "awaitReal"
    /\ calls' = calls
    /\ wire' = << RealRequest(baseUrl, call.path, call.method, call.headers,
                              call.body) >>
    /\ info' = Undefined
    /\ outcome' = Undefined
    /\ UNCHANGED << phase, cfgHost, cfgPort, testMode, baseUrl, credentials,
                    csrfToken, username, afterDisconnect, probeOk >>

\* the real request is rejected (transport error): request() rethrows
RealFetchFails(call) ==
    /\ call.pc = "awaitReal"
    /\ Resume(call, Undefined, TransportError)

\* the suspended calls
InFlight == BagToSet(calls)

\* the operations of a constructed service and the answers of the server
Next ==
    \/ GetConnectionInfo
    \/ Disconnect
    \/ \E login \in Logins : SetCredentials(login[1], login[2])
    \/ GetRepository
    \/ RunAtcCheck
    \/ \E call \in InFlight, answer \in TokenAnswers :
          TokenResponse(call, answer.status, answer.tokenHeader, answer.cookies)
    \/ \E call \in InFlight : TokenFetchFails(call)
    \/ \E call \in InFlight, status \in Statuses, body \in Bodies :
          RealResponse(call, status, body)
    \/ \E call \in InFlight : RealFetchFails(call)

\* the configuration under which the service was constructed
World ==
    [ isTestMode |-> FALSE, host |-> Some("sap.example.com"), port |-> Some("44300") ]

\* the state right after a construction that returned
Init ==
    /\ ~ConstructorThrows(World.isTestMode, World.host)
    /\ testMode = World.isTestMode
    /\ cfgHost = World.host
    /\ cfgPort = World.port
    /\ baseUrl = Some(ConstructorBaseUrl(World.isTestMode, World.host, World.port))
    /\ phase = "ready"
    /\ credentials = ""
    /\ csrfToken = ""
    /\ username = Undefined
    /\ calls = EmptyBag
    /\ wire = <<>>
    /\ info = Undefined
    /\ outcome = Undefined
    /\ afterDisconnect = FALSE
    /\ probeOk = FALSE

Spec == Init /\ [][Next]_vars

(* ---------------------- construction, on its own ----------------------- *)

\* the user or a test changes the settings (config.update)
ConfigUpdate(host, port) ==
    /\ cfgHost' = host
    /\ cfgPort' = port
    /\ wire' = <<>>
    /\ info' = Undefined
    /\ outcome' = Undefined
    /\ UNCHANGED << phase, testMode, baseUrl, credentials, csrfToken, username,
                    calls, afterDisconnect, probeOk >>

\* before the service is constructed
InitConstruct ==
    /\ phase = "unconstructed"
    /\ cfgHost \in ConfigHosts
    /\ cfgPort \in ConfigPorts
    /\ testMode = FALSE
    /\ baseUrl = Undefined
    /\ credentials = ""
    /\ csrfToken = ""
    /\ username = Undefined
    /\ calls = EmptyBag
    /\ wire = <<>>
    /\ info = Undefined
    /\ outcome = Undefined
    /\ afterDisconnect = FALSE
    /\ probeOk = FALSE

NextConstruct ==
    \/ \E isTestMode \in BOOLEAN : Construct(isTestMode)
    \/ \E host \in ConfigHosts, port \in ConfigPorts : ConfigUpdate(host, port)
    \/ GetConnectionInfo
    \/ Disconnect

SpecConstruct == InitConstruct /\ [][NextConstruct]_vars

(* ----------------------- class creation, on its own -------------------- *)

\* a session whose setCredentials probe has completed; the probe cached
\* the token the server sent, if it sent one
InitConnected ==
    /\ testMode = World.isTestMode
    /\ cfgHost = World.host
    /\ cfgPort = World.port
    /\ baseUrl = Some(ConstructorBaseUrl(World.isTestMode, World.host, World.port))
    /\ phase = "ready"
    /\ credentials = EncodeCredentials("u", "p")
    /\ csrfToken \in { TokenFromResponse(tokenHeader) : tokenHeader \in TokenHeaders }
    /\ username = Some("u")
    /\ calls = EmptyBag
    /\ wire = <<>>
    /\ info = Undefined
    /\ outcome = Undefined
    /\ afterDisconnect = FALSE
    /\ probeOk = TRUE

\* class creations on a connected session and the answers of the server
NextCreate ==
    \/ \E details \in ClassDetailsSet : CreateClass(details)
    \/ \E call \in InFlight, answer \in TokenAnswers :
          TokenResponse(call, answer.status, answer.tokenHeader, answer.cookies)
    \/ \E call \in InFlight : TokenFetchFails(call)
    \/ \E call \in InFlight, status \in Statuses, body \in Bodies :
          RealResponse(call, status, body)
    \/ \E call \in InFlight : RealFetchFails(call)

SpecCreate == InitConnected /\ [][NextCreate]_vars

(* --------------------- virtual folders, on their own ------------------- *)

\* the URI of package ZTEST as the package listing gives it
ZtestUri ==
    << "/", "sap", "/", "bc", "/", "adt", "/", "packages", "/", "ZTEST" >>

\* the arguments getVirtualFolderContents is called with
PackageNames == { ZtestUri, << "ZLOCAL" >> }

FacetValues == { "package", "PACKAGE", "GROUP", "TYPE", "CLAS" }

SelectedNames == { << "N" >>, << ".", ".", "N" >> }

GroupNames == { << "G" >> }

ParentNames == { << "P" >> }

\* a virtualFolder or object element with attributes
Entry(name, facet, counter, expandable) ==
    Some([ name |-> name, displayName |-> Undefined, counter |-> counter,
           facet |-> facet, vituri |-> Undefined, expandable |-> expandable ])

\* the elements a server may put in a virtualFoldersResult: with and without
\* the optional attributes, without attributes, and without a name
Entries ==
    { Entry(Some(<< "SOURCE_LIBRARY" >>), Some("GROUP"), Some(<< "1", "2" >>), Some("true")),
      Entry(Some(<< "ZCL_A" >>), Undefined, Undefined, Undefined),
      Entry(Some(<< "CLAS" >>), Some("TYPE"), Some(<< "0" >>), Some("false")),
      Entry(Some(<< "X" >>), Some("GROUP"), Some(<< "7" >>), Some("TRUE")),
      Entry(Undefined, Some("GROUP"), Undefined, Some("true")),
      Undefined }

RECURSIVE SeqsUpTo(_, _)
\* the sequences over a set of at most n elements
SeqsUpTo(S, n) ==
    IF n = 0 THEN { <<>> }
    ELSE SeqsUpTo(S, n - 1)
            \cup { Append(sq, x) : sq \in { t \in SeqsUpTo(S, n - 1) : Len(t) = n - 1 },
                                   x \in S }

\* the object elements of the documents of the model
ObjectLists ==
    { <<>>,
      << Entry(Some(<< "ZCL_A" >>), Undefined, Undefined, Undefined),
         Entry(Some(<< "ZCL_B" >>), Some("CLAS"), Undefined, Undefined) >> }

\* the response texts of the virtual-folder endpoint: virtualFoldersResult
\* documents, a document with another root, and text that is no XML
Documents ==
    { [ root |-> "virtualFoldersResult", virtualFolder |-> folders, object |-> objects ] :
          folders \in SeqsUpTo(Entries, MaxEntries), objects \in ObjectLists }
    \cup { [ root |-> "html" ], [ root |-> "#malformed" ] }

\* no call is suspended
Idle == calls = EmptyBag

\* virtual-folder queries, one at a time, and the answers of the server
NextFacets ==
    \/ \E packageName \in PackageNames, facetValue \in FacetValues,
          name \in SelectedNames, groupName \in GroupNames, parentName \in ParentNames :
          /\ Idle
          /\ GetVirtualFolderContents(packageName, facetValue, name, groupName, parentName)
    \/ \E call \in InFlight, answer \in TokenAnswers :
          TokenResponse(call, answer.status, answer.tokenHeader, answer.cookies)
    \/ \E call \in InFlight : TokenFetchFails(call)
    \/ \E call \in InFlight, status \in Statuses, document \in Documents :
          RealResponse(call, status, document)
    \/ \E call \in InFlight : RealFetchFails(call)

SpecFacets == InitConnected /\ [][NextFacets]_vars

(* ------------------------ the tree view, on its own -------------------- *)

\* the packages of the root listing
RootItems == { RootItem(<< "ZTEST" >>, ZtestUri) }

\* the virtualFolder elements a server may answer an expansion with: the
\* node that stands for the package's own objects, a sub-package, a group
\* and a type
NavFolderLists ==
    LET own == Entry(Some(<< ".", ".", "ZLOCAL" >>), Some("PACKAGE"), Some(<< "7" >>),
                     Some("true"))
        sub == Entry(Some(<< "ZSUB" >>), Some("PACKAGE"), Some(<< "1", "2" >>),
                     Some("true"))
        group == Entry(Some(<< "SOURCE_LIBRARY" >>), Some("GROUP"), Some(<< "7" >>),
                       Some("true"))
        type == Entry(Some(<< "CLAS" >>), Some("TYPE"), Some(<< "7" >>), Some("true"))
    IN  { <<>>, << own >>, << sub, own >>, << own, group, own >>, << group >>,
          << type >> }

\* the response texts of the model
NavDocuments ==
    { [ root |-> "virtualFoldersResult", virtualFolder |-> folders, object |-> <<>> ] :
          folders \in NavFolderLists }
    \cup { [ root |-> "virtualFoldersResult", virtualFolder |-> <<>>, object |-> objects ] :
              objects \in ObjectLists }
    \cup { [ root |-> "#malformed" ] }

\* the nodes the view holds and may expand: the root packages and the
\* nodes the expansion that just ended returned
Expandable ==
    RootItems \cup
        IF outcome # Undefined /\ outcome[1].op = "getChildren" /\ outcome[1].ended
        THEN { outcome[1].result.items[i] :
                  i \in { j \in 1..Len(outcome[1].result.items) :
                              outcome[1].result.items[j].collapsible } }
        ELSE {}

\* expansions of tree nodes, one at a time, and the answers of the server
NextNavigate ==
    \/ \E element \in Expandable : Idle /\ GetChildren(element)
    \/ Idle /\ Disconnect
    \/ \E call \in InFlight, answer \in TokenAnswers :
          TokenResponse(call, answer.status, answer.tokenHeader, answer.cookies)
    \/ \E call \in InFlight : TokenFetchFails(call)
    \/ \E call \in InFlight, status \in Statuses, document \in NavDocuments :
          RealResponse(call, status, document)
    \/ \E call \in InFlight : RealFetchFails(call)

SpecNavigate == InitConnected /\ [][NextNavigate]_vars

(* ---------------------- the package listing, on its own ---------------- *)

\* the parentUri arguments of getPackages
ParentUris == { Undefined, Some("ZTEST") }

ZlocalUri ==
    << "/", "sap", "/", "bc", "/", "adt", "/", "packages", "/", "ZLOCAL" >>

\* a SEU_ADT_REPOSITORY_OBJ_NODE element; an empty element reads as ""
Node(name, uri, type, description) ==
    [ OBJECT_NAME |-> name, OBJECT_URI |-> uri, OBJECT_TYPE |-> type,
      OBJECT_DESCRIPTION |-> description ]

\* the nodes a server may list: with and without type and description,
\* without a URI, without a name, and with an empty name or type
Nodes ==
    { Node(Some(<< "ZTEST" >>), Some(ZtestUri), Undefined, Undefined),
      Node(Some(<< "ZLOCAL" >>), Some(ZlocalUri), Some(<< "DEVC", "/", "KX" >>),
           Some(<< "local" >>)),
      Node(Some(<< "ZNOURI" >>), Undefined, Some(<< "DEVC", "/", "K" >>), Undefined),
      Node(Undefined, Some(ZlocalUri), Undefined, Undefined),
      Node(Some(<<>>), Some(ZlocalUri), Undefined, Undefined),
      Node(Some(<< "ZEMPTY" >>), Some(ZlocalUri), Some(<<>>), Undefined) }

\* an asx:abap document with the given content of asx:values
AsxDocument(values) == [ root |-> "asx:abap", values |-> values ]

\* the response texts of the listing request: asx:abap documents with
\* nodes, with parts of the chain missing, a document with another root,
\* and text that is no XML
PackageDocuments ==
    { AsxDocument(Some([ DATA |-> Some([ TREE_CONTENT |-> Some(nodes) ]) ])) :
          nodes \in SeqsUpTo(Nodes, MaxNodes) }
    \cup { AsxDocument(Undefined),
           AsxDocument(Some([ DATA |-> Undefined ])),
           AsxDocument(Some([ DATA |-> Some([ TREE_CONTENT |-> Undefined ]) ])),
           [ root |-> "html" ], [ root |-> "#malformed" ] }

\* the response texts of the second request, which is logged and dropped
DetailDocuments == { [ root |-> "html" ] }

\* the texts a server may answer the real request of a call with
AnswersTo(call) ==
    IF call.frame[1].step = "list" THEN PackageDocuments ELSE DetailDocuments

\* package listings, one at a time, and the answers of the server
NextPackages ==
    \/ \E parentUri \in ParentUris : Idle /\ GetPackages(parentUri)
    \/ Idle /\ Disconnect
    \/ \E call \in InFlight, answer \in TokenAnswers :
          TokenResponse(call, answer.status, answer.tokenHeader, answer.cookies)
    \/ \E call \in InFlight : TokenFetchFails(call)
    \/ \E call \in InFlight, status \in Statuses :
          \E document \in AnswersTo(call) : RealResponse(call, status, document)
    \/ \E call \in InFlight : RealFetchFails(call)

SpecPackages == InitConnected /\ [][NextPackages]_vars

(* ------------------------ the commands, on their own ------------------- *)

\* the token a server issues to a token fetch: it is bound to the
\* Authorization header the fetch was made under
IssuedTo(authorization) == "token(" \o authorization \o ")"

\* the Set-Cookie lists a server may answer with, an empty second value
\* among them
SetCookieLists == CookieLists \cup { << "c1", "" >> }

\* the answers a server may give to the token fetch of a call; a call
\* that has no token fetch under way gets none
AnswersToFetch(call) ==
    IF call.pc # "awaitToken" THEN {}
    ELSE [ status : {200},
           tokenHeader : { Undefined, Some(IssuedTo(call.headers["Authorization"])) },
           cookies : SetCookieLists ]
            \cup { [ status |-> 401, tokenHeader |-> Undefined, cookies |-> <<>> ] }

\* the commands of the extension, one at a time, on a constructed service,
\* and the answers of the server
NextLogin ==
    \/ \E proceed \in Selections, enteredName \in EnteredNames,
          enteredPassword \in EnteredPasswords :
          Idle /\ ConnectSAP(proceed, enteredName, enteredPassword)
    \/ \E enteredName \in EnteredNames, enteredPassword \in EnteredPasswords :
          Idle /\ DiscoverAdt(enteredName, enteredPassword)
    \/ Idle /\ Disconnect
    \/ GetConnectionInfo
    \/ \E call \in InFlight :
          \E answer \in AnswersToFetch(call) :
              TokenResponse(call, answer.status, answer.tokenHeader, answer.cookies)
    \/ \E call \in InFlight : TokenFetchFails(call)
    \/ \E call \in InFlight, status \in Statuses, body \in Bodies :
          RealResponse(call, status, body)
    \/ \E call \in InFlight : RealFetchFails(call)

SpecLogin == Init /\ [][NextLogin]_vars

(* ------------------------------- claims -------------------------------- *)

\* what a read of getConnectionInfo() would report in the current state
Info == getConnectionInfo(Session)

\* HTTP statuses in the 2xx range
Is2xx(status) == status \in 200..299

\* Base64 of `user:pass` as RFC 4648 gives it
Rfc4648(user, pass) ==
    CASE user = "u" /\ pass = "p" -> "dTpw"
      [] user = "u" /\ pass = "" -> "dTo="
      [] user = "ad" /\ pass = "p" -> "YWQ6cA=="

\* C1: isConnected is false right after construction, and later it is true
\* only if a setCredentials call has completed with a successful probe since
\* the last disconnect; a setCredentials call whose probe was rejected leaves
\* isConnected false.
C1_ConnectedOnlyAfterSuccessfulProbe ==
    phase = "ready" =>
        /\ Info.isConnected => probeOk
        /\ (/\ outcome # Undefined
            /\ outcome[1].op = "setCredentials"
            /\ outcome[1].result.kind = "error") => ~Info.isConnected

\* C2: in every state of a session isConnected is true exactly when stored
\* credentials are present, whether or not a CSRF token is cached; the value
\* a getConnectionInfo() call returned agrees.
C2_ConnectedIffCredentials ==
    phase = "ready" =>
        /\ Info.isConnected <=> credentials # ""
        /\ info # Undefined => (info[1].isConnected <=> credentials # "")

\* C2 witness: getConnectionInfo() reported connected while credentials are
\* stored and no CSRF token is cached
C2_Witness ==
    /\ info # Undefined
    /\ info[1].isConnected
    /\ credentials # ""
    /\ csrfToken = ""

\* the step sends exactly one request, a GET of /discovery
SentDiscoveryGet ==
    /\ Len(wire') = 1
    /\ wire'[1].method = "GET"
    /\ wire'[1].url = baseUrl[1] \o "/discovery"

\* C3: setCredentials(user, pass) stores the Base64 of `user:pass` and sends
\* a GET /discovery at once, and another when its token fetch is answered;
\* when the call ends normally the probe itself was
\* sent and answered, and once the probe is answered the call ends normally
\* exactly when the status is 2xx and in an error otherwise.
C3_SetCredentialsProbes ==
    /\ [][\A login \in Logins :
            (/\ BagCardinality(calls') > BagCardinality(calls)
             /\ username' = Some(login[1])
             /\ SetCredentials(login[1], login[2])) =>
                /\ credentials' = Rfc4648(login[1], login[2])
                /\ SentDiscoveryGet]_vars
    /\ [][(\E call \in InFlight :
              /\ call.op = "setCredentials"
              /\ call.pc = "awaitToken"
              /\ CopiesIn(call, calls') < CopiesIn(call, calls)
              /\ outcome' = Undefined) => SentDiscoveryGet]_vars
    /\ [](outcome # Undefined /\ outcome[1].op = "setCredentials" =>
            /\ outcome[1].result.kind = "ok" => outcome[1].real
            /\ outcome[1].response # Undefined =>
                  IF Is2xx(outcome[1].response[1].status)
                  THEN outcome[1].result.kind = "ok"
                  ELSE outcome[1].result.kind = "error")

\* C3 witness: a setCredentials call ended in an error on a probe answered 401
C3_Witness ==
    /\ outcome # Undefined
    /\ outcome[1].op = "setCredentials"
    /\ outcome[1].response # Undefined
    /\ outcome[1].response[1].status = 401
    /\ outcome[1].result.kind = "error"
    /\ credentials = "YWQ6cA=="

\* a request other than the setCredentials probe ends with the server
\* rejecting the credentials
AuthFailureStep ==
    /\ outcome' # Undefined
    /\ outcome'[1].op # "setCredentials"
    /\ outcome'[1].response # Undefined
    /\ outcome'[1].response[1].status \in AuthFailureStatuses

\* C4: from Connected (a setCredentials probe succeeded and credentials are
\* stored), disconnect() and an authentication failure on a later request
\* both leave isConnected false.
C4_AuthFailureDisconnects ==
    [][(probeOk /\ Info.isConnected /\ (Disconnect \/ AuthFailureStep)) =>
            ~getConnectionInfo(Session').isConnected]_vars

\* C5: from disconnect() until the next setCredentials call, every read of
\* getConnectionInfo() reports isConnected = false and username = undefined,
\* whatever calls started earlier complete in between.
C5_DisconnectedUntilSetCredentials ==
    afterDisconnect =>
        /\ ~Info.isConnected
        /\ Info.username = Undefined
        /\ info # Undefined => (~info[1].isConnected /\ info[1].username = Undefined)

\* C5 witness: a setCredentials probe started before a disconnect completed
\* normally after it, and a token was written after it
C5_Witness ==
    /\ afterDisconnect
    /\ outcome # Undefined
    /\ outcome[1].op = "setCredentials"
    /\ outcome[1].result.kind = "ok"
    /\ csrfToken # ""

\* setCredentials has never been called and disconnect() has never run
NeverConnected == credentials = "" /\ ~afterDisconnect

\* the session holds no credentials, no token and no user name
EmptySession == credentials = "" /\ csrfToken = "" /\ username = Undefined

\* disconnect() clears the three fields, and a second disconnect() would
\* change nothing more
DisconnectClearsIdempotently ==
    Disconnect =>
        /\ credentials' = "" /\ csrfToken' = "" /\ username' = Undefined
        /\ disconnect(Session') = Session'
        /\ disconnect(disconnect(Session)) = disconnect(Session)

C7_GetConnectionInfoPure ==
    /\ [][(info' # Undefined =>
               /\ wire' = <<>>
               /\ Session' = Session
               /\ calls' = calls
               /\ info'[1].url = baseUrl)
          /\ baseUrl' = baseUrl]_vars
    /\ [](baseUrl = Some(ConstructorBaseUrl(testMode, cfgHost, cfgPort)))

\* C7 witness: getConnectionInfo() was read after a disconnect, while
\* credentials are stored again and a call is in flight
C7_Witness ==
    /\ info # Undefined
    /\ info[1].url = Some("https://sap.example.com:44300/sap/bc/adt")
    /\ credentials # ""
    /\ probeOk
    /\ calls # EmptyBag

\* C8: without a configured host a construction outside test mode fails at
\* once; in test mode it succeeds whatever the configuration and gives a
\* disconnected session with no user name at the fixed placeholder url.
C8_ConstructorFailsFast ==
    [][\A isTestMode \in BOOLEAN :
          Construct(isTestMode) =>
              /\ (~isTestMode /\ cfgHost \in {Undefined, Some("")}) =>
                     (phase' = "failed" /\ wire' = <<>>)
              /\ isTestMode =>
                     /\ phase' = "ready"
                     /\ getConnectionInfo(Session').url = Some(TestBaseUrl)
                     /\ ~getConnectionInfo(Session').isConnected
                     /\ getConnectionInfo(Session').username = Undefined]_vars

\* C8 witness: a service constructed in test mode with no host configured
\* was read and reports a disconnected session
C8_Witness ==
    /\ phase = "ready"
    /\ testMode
    /\ cfgHost = Undefined
    /\ info # Undefined
    /\ ~info[1].isConnected

\* C9: a service constructed in test mode reports the url
\* https://gclp0285.devint.net.sap:8443/sap/bc/adt and isConnected = false.
C9_TestModeUrl ==
    (phase = "ready" /\ testMode /\ info # Undefined) =>
        /\ info[1].url = Some("https://gclp0285.devint.net.sap:8443/sap/bc/adt")
        /\ ~info[1].isConnected

\* C10: once the real request is answered, request() returns the response
\* body when the status is 2xx, and otherwise ends in an error that carries
\* the status, the status text and the response body.
C10_RequestOutcome ==
    (outcome # Undefined /\ outcome[1].response # Undefined) =>
        LET response == outcome[1].response[1]
            result == outcome[1].result
        IN  IF Is2xx(response.status)
            THEN result.kind = "ok" /\ result.text = response.body
            ELSE /\ result.kind = "error"
                 /\ result.status = response.status
                 /\ result.statusText = response.statusText
                 /\ result.body = response.body

\* C10 witness: a POST ended in an error on a response with status 300
C10_Witness ==
    /\ outcome # Undefined
    /\ outcome[1].op = "runAtcCheck"
    /\ outcome[1].response # Undefined
    /\ outcome[1].response[1].status = 300
    /\ outcome[1].result.kind = "error"
    /\ outcome[1].result.body = "body"

\* C11: when the token fetch of a non-GET call is answered with an
\* x-csrf-token header, the real request sent for that call carries that
\* value as X-CSRF-Token, whatever other calls are suspended on the session
\* and whatever token they cached.
C11_SendsFetchedToken ==
    [][\A call \in InFlight :
          (/\ call.pc = "awaitToken"
           /\ call.method # "GET"
           /\ outcome' = Undefined
           /\ CopiesIn(call, calls') < CopiesIn(call, calls)) =>
              \A answer \in TokenAnswers :
                  (answer.tokenHeader # Undefined
                      /\ TokenResponse(call, answer.status, answer.tokenHeader,
                                       answer.cookies)) =>
                      /\ Len(wire') = 1
                      /\ wire'[1].method = call.method
                      /\ wire'[1].headers["X-CSRF-Token"] = answer.tokenHeader[1]]_vars

\* C11 witness: a POST went out with the token ABC123 that its own fetch
\* returned, while another call had cached XYZ789 and is still suspended
C11_Witness ==
    /\ Len(wire) = 1
    /\ wire[1].method = "POST"
    /\ wire[1].headers["X-CSRF-Token"] = "ABC123"
    /\ csrfToken = "ABC123"
    /\ \E call \in InFlight : call.pc = "awaitToken"

\* the number of suspended calls that satisfy a condition
Count(Test(_)) ==
    BagCardinality([ call \in { c \in InFlight : Test(c) } |-> CopiesIn(call, calls) ])

\* a call suspended in its token fetch
InTokenFetch(call) == call.pc = "awaitToken"

\* a call suspended in a non-GET real request
InWrite(call) == call.pc = "awaitReal" /\ call.method # "GET"

\* C12: at most one token fetch is in flight at a time, and no token fetch
\* is in flight while another call's non-GET request is.
C12_TokenRefreshExclusive ==
    /\ Count(InTokenFetch) <= 1
    /\ Count(InTokenFetch) = 1 => Count(InWrite) = 0

\* the step of createClass a suspended call or an ended request() is in
StepOf(x) == x.frame[1].step

\* the latest step ended a request() of createClass in the given step
EndedStep(step) ==
    /\ outcome' # Undefined
    /\ outcome'[1].op = "createClass"
    /\ StepOf(outcome'[1]) = step

\* the latest step ended a request() of createClass with a 2xx answer to
\* the real request of the given step
Returned2xx(step) ==
    /\ EndedStep(step)
    /\ outcome'[1].real
    /\ outcome'[1].response # Undefined
    /\ Is2xx(outcome'[1].response[1].status)
    /\ ~outcome'[1].ended

\* the latest step brought the call into `step`: it started the call or
\* ended the request() of the step before (the answer to a token fetch
\* moves a call on within its step)
Entered(call, step) ==
    /\ call.op = "createClass"
    /\ StepOf(call) = step
    /\ CopiesIn(call, calls') > CopiesIn(call, calls)
    /\ \/ call.pc = "awaitToken"
       \/ outcome' # Undefined
       \/ BagCardinality(calls') > BagCardinality(calls)

\* C20: createClass sends the validation GET first; the class POST (and its
\* token fetch) is sent only in the step in which the validation GET is
\* answered 2xx, the source PUT (and its token fetch) only in the step in
\* which the class POST is answered 2xx; a request() of createClass that
\* fails, on its status or in transport, ends the call with nothing sent.
C20_CreateClassInOrder ==
    /\ [][\A call \in BagToSet(calls') :
            /\ Entered(call, "validate") =>
                  outcome' = Undefined /\ BagCardinality(calls') > BagCardinality(calls)
            /\ Entered(call, "create") => Returned2xx("validate")
            /\ Entered(call, "source") => Returned2xx("create")]_vars
    /\ [][(Len(wire') = 1 /\ wire'[1].method \in {"POST", "PUT"}) =>
            \E call \in InFlight :
                /\ call.pc = "awaitToken"
                /\ CopiesIn(call, calls') < CopiesIn(call, calls)
                /\ StepOf(call) = (IF wire'[1].method = "POST" THEN "create" ELSE "source")
                /\ outcome' = Undefined]_vars
    /\ [][(outcome' # Undefined /\ outcome'[1].op = "createClass"
              /\ (\/ outcome'[1].result.kind = "error"
                  \/ outcome'[1].response = Undefined
                  \/ ~Is2xx(outcome'[1].response[1].status))) =>
            /\ outcome'[1].ended
            /\ outcome'[1].result.kind = "error"
            /\ wire' = <<>>
            /\ BagCardinality(calls') = BagCardinality(calls) - 1]_vars

\* C20 witness: createClass returned after its source PUT was answered 2xx
\* while another createClass is still waiting for its validation
C20_Witness ==
    /\ outcome # Undefined
    /\ outcome[1].op = "createClass"
    /\ StepOf(outcome[1]) = "source"
    /\ outcome[1].result.kind = "ok"
    /\ outcome[1].ended
    /\ \E call \in InFlight : call.op = "createClass" /\ StepOf(call) = "validate"

\* the virtual-folder queries whose request document the latest step put
\* on the wire, each with that document
Posted ==
    IF Len(wire) = 1 /\ wire[1].method = "POST"
    THEN { [ query |-> call.frame[1].query, body |-> wire[1].body[1],
             frame |-> call.frame[1] ] :
              call \in { c \in InFlight : c.pc = "awaitReal" /\ c.frame # Undefined } }
    ELSE {}

\* the package name that ends each package URI of the model
NameOfPackage(packageName) ==
    CASE packageName = ZtestUri -> << "ZTEST" >>
      [] packageName = << "ZLOCAL" >> -> << "ZLOCAL" >>

\* the two-character marker followed by a name
Marked(name) == << ".", "." >> \o name

\* C16: a TYPE query posts the preselections group = SOURCE_LIBRARY,
\* package = '..' + actual package name and type = parentName, in that order,
\* with an empty facet order; answered 2xx with object elements and no
\* virtualFolder elements it returns one node per object, none expandable.
C16_TypeQuery ==
    /\ \A posted \in Posted :
          posted.query.facetValue = "TYPE" =>
              /\ posted.body.preselections =
                    << [ facet |-> "group", value |-> << "SOURCE_LIBRARY" >> ],
                       [ facet |-> "package",
                         value |-> Marked(NameOfPackage(posted.query.packageName)) ],
                       [ facet |-> "type", value |-> posted.query.parentName ] >>
              /\ posted.body.facetorder = <<>>
    /\ (/\ outcome # Undefined
        /\ outcome[1].op = "getVirtualFolderContents"
        /\ outcome[1].frame[1].query.facetValue = "TYPE"
        /\ outcome[1].response # Undefined
        /\ Is2xx(outcome[1].response[1].status)
        /\ outcome[1].response[1].body.root = "virtualFoldersResult"
        /\ outcome[1].response[1].body.virtualFolder = <<>>
        /\ outcome[1].response[1].body.object \in ObjectLists \ {<<>>}) =>
              /\ outcome[1].result.kind = "ok"
              /\ Len(outcome[1].result.items) = 2
              /\ outcome[1].result.items[1].name = << "ZCL_A" >>
              /\ outcome[1].result.items[2].name = << "ZCL_B" >>
              /\ \A i \in 1..2 : ~outcome[1].result.items[i].isExpandable

\* C16 witness: a TYPE query under the package URI was posted
C16_Witness ==
    \E posted \in Posted :
        /\ posted.query.facetValue = "TYPE"
        /\ posted.query.packageName = ZtestUri
        /\ posted.body.preselections[2].value = << ".", ".", "ZTEST" >>
        /\ posted.body.preselections[3].value = << "P" >>

\* C17: a package query posts exactly one preselection, package = the
\* selected name, and the facet order package, group, type.
C17_PackageQuery ==
    \A posted \in Posted :
        posted.query.facetValue = "package" =>
            /\ posted.body.preselections =
                  << [ facet |-> "package", value |-> posted.query.name ] >>
            /\ posted.body.facetorder = << "package", "group", "type" >>

\* C17 witness: a package query for N was posted
C17_Witness ==
    \E posted \in Posted :
        /\ posted.query.facetValue = "package"
        /\ posted.body.preselections[1].value = << "N" >>

\* C18: a query of any other facet kind posts the preselections
\* <facetKind> = the selected name, package = '..' + actual package name
\* and type = the sibling hint, in that order, with an empty facet order.
C18_OtherQuery ==
    \A posted \in Posted :
        posted.query.facetValue \notin { "package", "PACKAGE", "GROUP", "TYPE" } =>
            /\ posted.body.preselections =
                  << [ facet |-> posted.query.facetValue, value |-> posted.query.name ],
                     [ facet |-> "package",
                       value |-> Marked(NameOfPackage(posted.query.packageName)) ],
                     [ facet |-> "type", value |-> posted.query.groupName ] >>
            /\ posted.body.facetorder = <<>>

\* C18 witness: a CLAS query under the package URI was posted
C18_Witness ==
    \E posted \in Posted :
        /\ posted.query.facetValue = "CLAS"
        /\ posted.query.packageName = ZtestUri
        /\ posted.body.preselections[1] = [ facet |-> "CLAS", value |-> << "N" >> ]
        /\ posted.body.preselections[3].value = << "G" >>

\* the number a counter attribute of the model stands for, 0 when absent
CounterOf(counter) ==
    CASE counter = Undefined -> 0
      [] counter = Some(<< "0" >>) -> 0
      [] counter = Some(<< "7" >>) -> 7
      [] counter = Some(<< "1", "2" >>) -> 12

\* the items are the given entries, one for one and in order
ItemsMatch(items, entries) ==
    /\ Len(items) = Len(entries)
    /\ \A i \in 1..Len(entries) :
          /\ items[i].name = entries[i][1].name[1]
          /\ items[i].isExpandable <=> entries[i][1].expandable = Some("true")
          /\ items[i].counter = CounterOf(entries[i][1].counter)

\* a virtual-folder query was answered 2xx with a virtualFoldersResult
Answered ==
    /\ outcome # Undefined
    /\ outcome[1].op = "getVirtualFolderContents"
    /\ outcome[1].response # Undefined
    /\ Is2xx(outcome[1].response[1].status)
    /\ outcome[1].response[1].body.root = "virtualFoldersResult"

\* every element has attributes and a name among them
AllNamed(entries) ==
    \A i \in 1..Len(entries) : entries[i] # Undefined /\ entries[i][1].name # Undefined

\* C19 as stated: a virtualFoldersResult with n virtualFolder entries gives
\* exactly n nodes in document order, expandable exactly when the attribute
\* is "true", with the counter attribute or 0 as child count.
C19_OneNodePerVirtualFolder ==
    Answered =>
        /\ outcome[1].result.kind = "ok"
        /\ ItemsMatch(outcome[1].result.items, outcome[1].response[1].body.virtualFolder)

\* C19 amended: when every element of the virtualFoldersResult carries a
\* name, n >= 1 virtualFolder entries give exactly n nodes in document
\* order, expandable exactly when the attribute is "true", with the counter
\* attribute or 0 as child count; with no virtualFolder entry the object
\* entries give the nodes in the same way.
C19_OneNodePerEntry ==
    (/\ Answered
     /\ AllNamed(outcome[1].response[1].body.virtualFolder)
     /\ AllNamed(outcome[1].response[1].body.object)) =>
        /\ outcome[1].result.kind = "ok"
        /\ ItemsMatch(outcome[1].result.items,
                      IF Len(outcome[1].response[1].body.virtualFolder) >= 1
                      THEN outcome[1].response[1].body.virtualFolder
                      ELSE outcome[1].response[1].body.object)

\* C19 witness: two virtualFolder entries, the first expandable with counter
\* 12, the second with neither attribute, were returned as two nodes
C19_Witness ==
    /\ Answered
    /\ Len(outcome[1].response[1].body.virtualFolder) = 2
    /\ outcome[1].result.kind = "ok"
    /\ Len(outcome[1].result.items) = 2
    /\ outcome[1].result.items[1].isExpandable
    /\ outcome[1].result.items[1].counter = 12
    /\ ~outcome[1].result.items[2].isExpandable
    /\ outcome[1].result.items[2].counter = 0

\* the name begins with the two-character marker
HasMarker(name) == Len(name) >= 2 /\ name[1] = "." /\ name[2] = "."

\* the name without its first two characters
Unmarked(name) == SubSeq(name, 3, Len(name))

\* C13: the nodes getChildren returns for a package hold no PACKAGE-kind
\* node whose name begins with the marker, whatever the server answered to
\* the first query and to the follow-up queries.
C13_NoIndirectionNodeSurfaced ==
    (/\ outcome # Undefined
     /\ outcome[1].op = "getChildren"
     /\ outcome[1].ended
     /\ outcome[1].frame[1].element.type = "package") =>
        \A i \in 1..Len(outcome[1].result.items) :
            ~(/\ outcome[1].result.items[i].facet = Some("PACKAGE")
              /\ HasMarker(outcome[1].result.items[i].label))

\* the node whose children a posted query of getChildren asks for: the
\* folder the loop stands at, or the element that is expanded
NodeOf(posted) ==
    IF posted.frame.folder # Undefined THEN posted.frame.folder[1].name
    ELSE posted.frame.element.label

\* C14: whenever getChildren posts a PACKAGE query for a node whose name
\* begins with the marker - a folder of a package's first response or a
\* PACKAGE node of the tree that is expanded - the document holds exactly
\* one preselection, package = '..' + the name without the marker, and the
\* facet order group, type.
C14_IndirectionQuery ==
    \A posted \in Posted :
        (posted.query.facetValue = "PACKAGE" /\ HasMarker(NodeOf(posted))) =>
            /\ posted.body.preselections =
                  << [ facet |-> "package",
                       value |-> Marked(Unmarked(NodeOf(posted))) ] >>
            /\ posted.body.facetorder = << "group", "type" >>

\* the element was listed under a package: a package of the root listing
\* or a PACKAGE node
ListedUnderPackage(element) ==
    /\ element.parent # Undefined
    /\ \/ element.parent[1].type = "package"
       \/ element.parent[1].facet = Some("PACKAGE")

\* the name of the package the element was listed under
PackageAbove(element) ==
    IF HasMarker(element.parent[1].label) THEN Unmarked(element.parent[1].label)
    ELSE element.parent[1].label

\* C15: whenever getChildren posts a GROUP query for a group node that was
\* listed under a package, the document preselects group = the node's name
\* and package = '..' + the name of that package, with the facet order type
\* (the facet name of the first preselection is read without regard to case).
C15_GroupQuery ==
    \A posted \in Posted :
        (/\ posted.query.facetValue = "GROUP"
         /\ ListedUnderPackage(posted.frame.element)) =>
            /\ Len(posted.body.preselections) = 2
            /\ posted.body.preselections[1].facet \in { "group", "GROUP" }
            /\ posted.body.preselections[1].value = posted.frame.element.label
            /\ posted.body.preselections[2] =
                  [ facet |-> "package",
                    value |-> Marked(PackageAbove(posted.frame.element)) ]
            /\ posted.body.facetorder = << "type" >>

\* the requests createClass has reason to send for the given details: the
\* token fetch and the requests of its three steps
CreateClassUrls(details) ==
    { baseUrl[1] \o "/discovery" }
        \cup { baseUrl[1] \o CreateClassRequest(step, details).path :
                  step \in { "validate", "create", "source" } }

\* the latest step ended a request() of createClass in a failed exchange:
\* the token fetch or the real request was rejected, or the real request
\* was answered outside 2xx
FailedIn(step) ==
    /\ EndedStep(step)
    /\ \/ outcome'[1].response = Undefined
       \/ ~Is2xx(outcome'[1].response[1].status)

\* C21: when the class POST or the source PUT of createClass fails, the
\* call ends in an error in that very step, with no request sent and the
\* call no longer suspended; createClass sends GET, POST and PUT requests
\* only, to /discovery and the paths of its three steps, so nothing undoes
\* a class that the POST created.
C21_NoRollback ==
    /\ [][(FailedIn("create") \/ FailedIn("source")) =>
            /\ outcome'[1].ended
            /\ outcome'[1].result.kind = "error"
            /\ wire' = <<>>
            /\ calls' = calls (-) SetToBag({ c \in InFlight :
                                               CopiesIn(c, calls') < CopiesIn(c, calls) })
            /\ BagCardinality(calls') = BagCardinality(calls) - 1]_vars
    /\ [](\A i \in 1..Len(wire) :
            /\ wire[i].method \in { "GET", "POST", "PUT" }
            /\ \E details \in ClassDetailsSet : wire[i].url \in CreateClassUrls(details))

\* C21 witness: the source PUT was answered 401 after the class POST had
\* succeeded, and createClass ended in that error
C21_Witness ==
    /\ outcome # Undefined
    /\ outcome[1].op = "createClass"
    /\ StepOf(outcome[1]) = "source"
    /\ outcome[1].real
    /\ outcome[1].response # Undefined
    /\ outcome[1].response[1].status = 401
    /\ outcome[1].ended
    /\ outcome[1].result.kind = "error"
    /\ wire = <<>>

\* the step an error names as the one that failed, if it names one
StepNamedBy(result) ==
    IF "step" \in DOMAIN result THEN Some(result.step) ELSE Undefined

\* C22: when createClass ends in an error in its class POST or its source
\* PUT, the earlier steps having succeeded, the error handed to the caller
\* names that step.
C22_PartialCreateErrorNamesStep ==
    (/\ outcome # Undefined
     /\ outcome[1].op = "createClass"
     /\ outcome[1].ended
     /\ outcome[1].result.kind = "error"
     /\ StepOf(outcome[1]) \in { "create", "source" }) =>
        StepNamedBy(outcome[1].result) = Some(StepOf(outcome[1]))

\* C23: when a virtual-folder query is answered 2xx with a text that is
\* not a virtualFoldersResult document - no XML at all, or XML without
\* that container - the call ends in an error and returns no nodes.
C23_ProtocolErrorSurfaced ==
    (/\ outcome # Undefined
     /\ outcome[1].op = "getVirtualFolderContents"
     /\ outcome[1].response # Undefined
     /\ Is2xx(outcome[1].response[1].status)
     /\ outcome[1].response[1].body.root # "virtualFoldersResult") =>
        /\ outcome[1].ended
        /\ outcome[1].result.kind = "error"

\* the element has a value that is not empty
Present(o) == o # Undefined /\ o[1] # <<>>

\* the positions of the nodes that have both a name and a URI
Listed(nodes) ==
    { i \in 1..Len(nodes) : Present(nodes[i].OBJECT_NAME) /\ Present(nodes[i].OBJECT_URI) }

\* the items are the listed nodes, one for one and in document order, with
\* name and uri copied and the type copied or DEVC/K
PackagesMatch(items, nodes) ==
    /\ Len(items) = Cardinality(Listed(nodes))
    /\ \E at \in [ 1..Len(items) -> Listed(nodes) ] :
          /\ \A j, k \in 1..Len(items) : j < k => at[j] < at[k]
          /\ \A k \in 1..Len(items) :
                /\ items[k].name = nodes[at[k]].OBJECT_NAME[1]
                /\ items[k].uri = nodes[at[k]].OBJECT_URI[1]
                /\ items[k].type = IF Present(nodes[at[k]].OBJECT_TYPE)
                                   THEN nodes[at[k]].OBJECT_TYPE[1]
                                   ELSE << "DEVC", "/", "K" >>

\* getPackages has ended after both its requests were answered 2xx, the
\* first with an asx:abap document that holds a list of nodes
Listing ==
    /\ outcome # Undefined
    /\ outcome[1].op = "getPackages"
    /\ outcome[1].ended
    /\ outcome[1].response # Undefined
    /\ Is2xx(outcome[1].response[1].status)
    /\ outcome[1].frame[1].step = "detail"
    /\ outcome[1].frame[1].listing[1] \in
          { AsxDocument(Some([ DATA |-> Some([ TREE_CONTENT |-> Some(nodes) ]) ])) :
                nodes \in SeqsUpTo(Nodes, MaxNodes) }

\* the nodes of the listing getPackages has decoded
ListingNodes == outcome[1].frame[1].listing[1].values[1].DATA[1].TREE_CONTENT[1]

\* C24: getPackages returns one package per SEU_ADT_REPOSITORY_OBJ_NODE
\* that has both an OBJECT_NAME and an OBJECT_URI (an empty element counts
\* as absent), in document order, with name and uri copied and the type
\* copied or DEVC/K when there is none; the single node ZTEST with URI
\* /sap/bc/adt/packages/ZTEST gives exactly one package, of type DEVC/K.
C24_OnePackagePerNode ==
    Listing =>
        /\ outcome[1].result.kind = "ok"
        /\ PackagesMatch(outcome[1].result.items, ListingNodes)
        /\ ListingNodes = << Node(Some(<< "ZTEST" >>), Some(ZtestUri), Undefined, Undefined) >> =>
              /\ Len(outcome[1].result.items) = 1
              /\ outcome[1].result.items[1].name = << "ZTEST" >>
              /\ outcome[1].result.items[1].uri =
                    << "/", "sap", "/", "bc", "/", "adt", "/", "packages", "/", "ZTEST" >>
              /\ outcome[1].result.items[1].type = << "DEVC", "/", "K" >>

\* C24 witness: the listing held the node ZTEST and a node without a URI,
\* and getPackages returned the one package ZTEST
C24_Witness ==
    /\ Listing
    /\ Len(ListingNodes) = 2
    /\ ListingNodes[2].OBJECT_URI = Undefined
    /\ outcome[1].result.kind = "ok"
    /\ Len(outcome[1].result.items) = 1
    /\ outcome[1].result.items[1].name = << "ZTEST" >>
    /\ outcome[1].result.items[1].type = << "DEVC", "/", "K" >>

\* the calls the latest step has started or moved on to where they stand
Arrived == { call \in BagToSet(calls') : CopiesIn(call, calls') > CopiesIn(call, calls) }

\* the calls the latest step has ended or moved on from where they stood
Left == { call \in InFlight : CopiesIn(call, calls') < CopiesIn(call, calls) }

\* the step sends exactly one request, the token fetch
SentTokenFetch ==
    /\ SentDiscoveryGet
    /\ "X-CSRF-Token" \in DOMAIN wire'[1].headers
    /\ wire'[1].headers["X-CSRF-Token"] = "Fetch"

\* C25: a call of a method other than GET starts with the token fetch, GET
\* /discovery with X-CSRF-Token: Fetch, whether or not a token is cached; a
\* request of a method other than GET goes out only in the step in which
\* the token fetch of that call is answered, and that step overwrites the
\* cached token with the x-csrf-token value of the answer ("" without one).
C25_TokenFetchBeforeEveryWrite ==
    /\ [][(BagCardinality(calls') > BagCardinality(calls)
              /\ \E call \in Arrived : call.method # "GET") =>
                /\ SentTokenFetch
                /\ \A call \in Arrived : call.pc = "awaitToken" /\ call.fetched]_vars
    /\ [][(Len(wire') >= 1 /\ \E i \in 1..Len(wire') : wire'[i].method # "GET") =>
            /\ Len(wire') = 1
            /\ \E call \in Left :
                  /\ call.pc = "awaitToken"
                  /\ call.method = wire'[1].method
                  /\ wire'[1].url = baseUrl[1] \o call.path
            /\ \A call \in Arrived : call.pc = "awaitReal" /\ call.fetched
            /\ \E tokenHeader \in TokenHeaders :
                  csrfToken' = (IF tokenHeader = Undefined THEN "" ELSE tokenHeader[1])]_vars
    /\ [][(outcome' = Undefined /\ BagCardinality(calls') = BagCardinality(calls)) =>
            \A call \in Left :
                (call.pc = "awaitToken" /\ call.method # "GET") =>
                    \A answer \in TokenAnswers :
                        TokenResponse(call, answer.status, answer.tokenHeader,
                                      answer.cookies) =>
                            csrfToken' = (IF answer.tokenHeader = Undefined THEN ""
                                          ELSE answer.tokenHeader[1])]_vars

\* C25 witness: a POST call has just started with its token fetch while a
\* token is cached, and no other call is suspended
C25_Witness ==
    /\ csrfToken # ""
    /\ Len(wire) = 1
    /\ wire[1].method = "GET"
    /\ wire[1].url = baseUrl[1] \o "/discovery"
    /\ BagCardinality(calls) = 1
    /\ \E call \in InFlight : call.method = "POST" /\ call.pc = "awaitToken"

\* the latest step has started a GET call and nothing else
StartedGet ==
    /\ BagCardinality(calls') > BagCardinality(calls)
    /\ \A call \in Arrived : call.method = "GET"

\* C26: a GET call started while a token is cached sends its real request
\* at once, with no token fetch, and sends nothing more when that request
\* is answered or fails: one request in all, and neither step changes the
\* cached token. A GET call started while no token is cached sends the
\* token fetch first, and the answer to it stores the token it carries and
\* sends the real request.
C26_GetUsesCachedToken ==
    /\ [][(StartedGet /\ csrfToken # "") =>
            /\ Len(wire') = 1
            /\ wire'[1].method = "GET"
            /\ "X-CSRF-Token" \notin DOMAIN wire'[1].headers
            /\ \A call \in Arrived : call.pc = "awaitReal" /\ ~call.fetched
            /\ csrfToken' = csrfToken]_vars
    /\ [][(outcome' # Undefined /\ ~outcome'[1].fetched) =>
            /\ \A call \in Left : call.pc = "awaitReal" /\ ~call.fetched
            /\ Arrived = {}
            /\ wire' = <<>>
            /\ csrfToken' = csrfToken]_vars
    /\ [][(StartedGet /\ csrfToken = "") =>
            /\ SentTokenFetch
            /\ \A call \in Arrived : call.pc = "awaitToken" /\ call.fetched]_vars
    /\ [][(outcome' = Undefined /\ BagCardinality(calls') = BagCardinality(calls)) =>
            \A call \in Left :
                (call.pc = "awaitToken" /\ call.method = "GET") =>
                    /\ Len(wire') = 1
                    /\ wire'[1].method = "GET"
                    /\ wire'[1].url = baseUrl[1] \o call.path
                    /\ "X-CSRF-Token" \notin DOMAIN wire'[1].headers
                    /\ \A answer \in TokenAnswers :
                          TokenResponse(call, answer.status, answer.tokenHeader,
                                        answer.cookies) =>
                              csrfToken' = (IF answer.tokenHeader = Undefined THEN ""
                                            ELSE answer.tokenHeader[1])]_vars

\* C26 witness: a getRepository call that made no token fetch has returned
\* its text, and the token is still cached
C26_Witness ==
    /\ outcome # Undefined
    /\ outcome[1].op = "getRepository"
    /\ ~outcome[1].fetched
    /\ outcome[1].real
    /\ outcome[1].result.kind = "ok"
    /\ csrfToken # ""

\* C27: from disconnect() until the next setCredentials call, no request
\* that is sent carries an Authorization header made of credentials: the
\* header, if there is one, holds the empty credentials of the session.
C27_NoClearedCredentialsSent ==
    afterDisconnect =>
        \A i \in 1..Len(wire) :
            "Authorization" \in DOMAIN wire[i].headers =>
                wire[i].headers["Authorization"] = "Basic " \o ""

\* C28: a request() call fetches a token only as its first exchange and
\* sends its real request once: at its start when it fetches no token, else
\* in the step that answers its token fetch. Every answer to the real
\* request, whatever its status, and every rejected fetch ends the call with
\* a text or an error and sends nothing, so a call makes at most two
\* exchanges; until then it waits for exactly one answer.
C28_AtMostTwoExchanges ==
    /\ [][\A call \in Arrived :
            /\ call.pc = "awaitToken" => BagCardinality(calls') > BagCardinality(calls)
            /\ (call.pc = "awaitReal" /\ BagCardinality(calls') = BagCardinality(calls)) =>
                  /\ call.fetched
                  /\ \A left \in Left :
                        left.pc = "awaitToken" /\ left.op = call.op
                            /\ left.method = call.method]_vars
    /\ [][wire' # <<>> => (Len(wire') = 1 /\ Cardinality(Arrived) = 1)]_vars
    /\ [][\A call \in Left :
            \/ /\ call.pc = "awaitToken"
               /\ outcome' = Undefined
               /\ Len(wire') = 1
               /\ \A next \in Arrived : next.pc = "awaitReal"
            \/ /\ outcome' # Undefined
               /\ outcome'[1].op = call.op
               /\ outcome'[1].ended
               /\ outcome'[1].result.kind \in { "ok", "error" }
               /\ outcome'[1].result.kind = "ok" => "text" \in DOMAIN outcome'[1].result
               /\ wire' = <<>>
               /\ Arrived = {}
               /\ BagCardinality(calls') = BagCardinality(calls) - 1]_vars
    /\ [](\A call \in InFlight : call.pc \in { "awaitToken", "awaitReal" })

\* C28 witness: a POST call that fetched a token and whose real request
\* was answered 401 has ended in the error, with nothing sent again
C28_Witness ==
    /\ outcome # Undefined
    /\ outcome[1].op = "runAtcCheck"
    /\ outcome[1].fetched
    /\ outcome[1].real
    /\ outcome[1].response # Undefined
    /\ outcome[1].response[1].status = 401
    /\ outcome[1].result.kind = "error"
    /\ wire = <<>>
    /\ calls = EmptyBag

\* C29: an exchange of request() that fails ends the call in an error: a
\* token fetch that is answered outside 2xx does, and a call whose token
\* fetch or real request was rejected, or whose real request was answered
\* outside 2xx, returns no text.
C29_NoFailureSwallowed ==
    /\ [][\A call \in Left :
            call.pc = "awaitToken" =>
                \A answer \in TokenAnswers :
                    (~Is2xx(answer.status)
                        /\ TokenResponse(call, answer.status, answer.tokenHeader,
                                         answer.cookies)) =>
                            /\ outcome' # Undefined
                            /\ outcome'[1].result.kind = "error"
                            /\ wire' = <<>>]_vars
    /\ [](outcome # Undefined =>
            ((outcome[1].response = Undefined \/ ~Is2xx(outcome[1].response[1].status))
                => outcome[1].result.kind = "error"))

\* the request() call a suspended createClass call is in
RequestOf(call) == CreateClassRequest(StepOf(call), call.frame[1].details)

\* the real requests of createClass the latest step has sent, each with
\* the headers createClass handed to request() and the headers that went out
SentWithExtra ==
    IF Len(wire) # 1 THEN {}
    ELSE { [ extra |-> RequestOf(call).extra, sent |-> wire[1].headers ] :
              call \in { c \in InFlight :
                            /\ c.op = "createClass"
                            /\ c.pc = "awaitReal"
                            /\ wire[1].method = RequestOf(c).method
                            /\ wire[1].url = baseUrl[1] \o RequestOf(c).path } }

\* the headers request() starts from
BaseHeaders == [ Authorization |-> "Basic " \o credentials, Accept |-> "*/*" ]

\* C30: the real request carries every header its caller supplied, with
\* the caller's value, and the base headers Authorization: Basic
\* <credentials> and Accept: */* under the names the caller did not supply;
\* beyond these only the Cookie and X-CSRF-Token headers that request()
\* sets itself.
C30_CallerHeadersWin ==
    \A r \in SentWithExtra :
        /\ \A name \in DOMAIN r.extra :
              name \in DOMAIN r.sent /\ r.sent[name] = r.extra[name]
        /\ \A name \in { "Authorization", "Accept" } \ DOMAIN r.extra :
              name \in DOMAIN r.sent /\ r.sent[name] = BaseHeaders[name]
        /\ DOMAIN r.sent \subseteq
              DOMAIN r.extra \cup { "Authorization", "Accept", "Cookie", "X-CSRF-Token" }

\* C30 witness: the class POST went out with the Accept header of
\* createClass in place of */*, with the credentials and with a cookie
C30_Witness ==
    /\ SentWithExtra # {}
    /\ wire[1].method = "POST"
    /\ wire[1].headers["Accept"] = "application/vnd.sap.adt.oo.classes.v2+xml"
    /\ wire[1].headers["Content-Type"] = "application/vnd.sap.adt.oo.classes.v2+xml"
    /\ wire[1].headers["Authorization"] = "Basic dTpw"
    /\ "Cookie" \in DOMAIN wire[1].headers

\* the Cookie header the answer of a token fetch leads to, read as: the
\* second Set-Cookie value if there are two or more, else the first
SecondIfAny(cookies) == IF Len(cookies) >= 2 THEN cookies[2] ELSE cookies[1]

\* the same, with a second value that is empty giving way to the first
SecondIfNonEmpty(cookies) ==
    IF Len(cookies) >= 2 /\ cookies[2] # "" THEN cookies[2] ELSE cookies[1]

\* the request a step sends carries the Cookie header Expected(cookies)
\* when the step answers a token fetch with the Set-Cookie values cookies,
\* and no Cookie header when these are none or when the step answers no
\* token fetch
CookieFollows(Expected(_)) ==
    wire' # <<>> =>
        /\ \A call \in Left :
              call.pc = "awaitToken" =>
                  \A answer \in AnswersToFetch(call) :
                      TokenResponse(call, answer.status, answer.tokenHeader,
                                    answer.cookies) =>
                          IF Len(answer.cookies) = 0
                          THEN "Cookie" \notin DOMAIN wire'[1].headers
                          ELSE /\ "Cookie" \in DOMAIN wire'[1].headers
                               /\ wire'[1].headers["Cookie"] = Expected(answer.cookies)
        /\ (\A call \in Left : call.pc # "awaitToken") =>
              "Cookie" \notin DOMAIN wire'[1].headers

\* C31 as stated: the real request of a call carries the second Set-Cookie
\* value of the token-fetch response if there are two or more, the first
\* otherwise, and no Cookie header when there are none or no token fetch
\* was made.
C31_SecondCookieIfAny == [][CookieFollows(SecondIfAny)]_vars

\* C31, amended: the real request of a call carries the second Set-Cookie
\* value of the token-fetch response if there are two or more and the
\* second is not empty, the first otherwise, and no Cookie header when the
\* response has no Set-Cookie or no token fetch was made.
C31_SecondCookieIfNonEmpty == [][CookieFollows(SecondIfNonEmpty)]_vars

\* C31 witness: the real request of a call that fetched a token is out
\* with the second of two Set-Cookie values
C31_Witness ==
    /\ Len(wire) = 1
    /\ "Cookie" \in DOMAIN wire[1].headers
    /\ wire[1].headers["Cookie"] = "c2"
    /\ \E call \in InFlight : call.pc = "awaitReal" /\ call.fetched

\* C32: a CSRF token is cached only while credentials are present: in
\* every reachable state a non-empty csrfToken comes with non-empty
\* credentials.
C32_TokenOnlyWithCredentials == csrfToken # "" => credentials # ""

\* the setCredentials call of a command has just returned normally
SetCredentialsCompleted ==
    /\ outcome # Undefined
    /\ outcome[1].op \in { "connectSAP", "discoverAdt" }
    /\ outcome[1].frame # Undefined
    /\ outcome[1].frame[1].step = "setCredentials"
    /\ outcome[1].result.kind = "ok"

\* C33: whenever setCredentials completes successfully, the cached CSRF
\* token, if there is one, was issued to a token fetch made under the
\* credentials now stored: no token obtained under earlier credentials is
\* kept across a change of credentials.
C33_TokenOfStoredCredentials ==
    SetCredentialsCompleted =>
        csrfToken \in { "", IssuedTo("Basic " \o credentials) }

\* C34: the connectSAP command calls setCredentials only with the user
\* name and password entered in the prompts, and not at all when the
\* dialog is not confirmed or a prompt is cancelled or left empty: the
\* session then stays as it is and nothing is sent.
C34_ConnectUsesEnteredLogin ==
    [][\A proceed \in Selections, enteredName \in EnteredNames,
          enteredPassword \in EnteredPasswords :
            (Idle /\ ConnectSAP(proceed, enteredName, enteredPassword)) =>
                IF proceed = Some("Connect") /\ Truthy(enteredName)
                    /\ Truthy(enteredPassword)
                THEN /\ username' = enteredName
                     /\ credentials' = EncodeCredentials(enteredName[1], enteredPassword[1])
                ELSE /\ username' = username
                     /\ credentials' = credentials
                     /\ calls' = calls
                     /\ wire' = <<>>]_vars

\* C37: getPackages called while no credentials are stored ends at once in
\* the error 'Not connected to SAP': it sends no request, leaves no call
\* suspended and changes none of credentials, csrfToken and username.
C37_NotConnectedNoRequest ==
    [][\A parentUri \in ParentUris :
            (credentials = "" /\ GetPackages(parentUri)) =>
                /\ outcome' # Undefined
                /\ outcome'[1].op = "getPackages"
                /\ outcome'[1].ended
                /\ outcome'[1].result.kind = "error"
                /\ outcome'[1].result.message = "Not connected to SAP"
                /\ wire' = <<>>
                /\ calls' = calls
                /\ credentials' = credentials
                /\ csrfToken' = csrfToken
                /\ username' = username]_vars

\* C37 witness: after a disconnect, a getPackages call has ended in the
\* error with nothing sent and nothing suspended
C37_Witness ==
    /\ credentials = ""
    /\ afterDisconnect
    /\ outcome # Undefined
    /\ outcome[1].op = "getPackages"
    /\ outcome[1].ended
    /\ outcome[1].result = NotConnectedError
    /\ wire = <<>>
    /\ calls = EmptyBag

\* the listing request of a root getPackages call was answered 2xx with a
\* well-formed node list, and the call has now ended
RootListingAnswered ==
    /\ outcome # Undefined
    /\ outcome[1].op = "getPackages"
    /\ outcome[1].ended
    /\ outcome[1].frame[1].parentUri = Undefined
    /\ outcome[1].frame[1].listing # Undefined
    /\ ParsePackages(outcome[1].frame[1].listing[1]).kind = "ok"

\* C36: the root package listing succeeds and returns the decoded packages
\* whenever its listing POST was answered 2xx with a well-formed node
\* list: no other request decides its outcome.
C36_RootListingAlone ==
    RootListingAnswered =>
        outcome[1].result = ParsePackages(outcome[1].frame[1].listing[1])

RECURSIVE Indirections(_)
\* the number of indirection nodes among folders
Indirections(folders) ==
    IF Len(folders) = 0 THEN 0
    ELSE (IF IsIndirection(folders[1]) THEN 1 ELSE 0) + Indirections(Tail(folders))

\* the follow-up queries an expansion may still make: one for every
\* indirection node the loop has not come to yet
FollowUpsLeft(call) == Indirections(call.frame[1].pending)

\* folders is what is left of all after some of its first elements
IsSuffix(folders, all) ==
    /\ Len(folders) <= Len(all)
    /\ folders = SubSeq(all, Len(all) - Len(folders) + 1, Len(all))

\* C35: the expansion of a package makes one query for the package and
\* then at most one follow-up query per indirection node of the answer to
\* that first query. Every query after the first is a follow-up for an
\* indirection node of the first answer; what is left to query is a part
\* of the first answer that shrinks by one indirection node with every
\* follow-up, whatever the follow-up answers hold, and the expansion
\* returns when none is left.
C35_FollowUpsBounded ==
    /\ [][(outcome' # Undefined /\ outcome'[1].op = "getChildren"
              /\ ~outcome'[1].ended) =>
            \A old \in Left : \A new \in Arrived :
                LET before == old.frame[1]
                    after == new.frame[1]
                    first == ParseVirtualFolders(outcome'[1].result.text,
                                                 before.query.facetValue).items
                    queue == IF before.stage = "package" THEN first
                             ELSE before.pending
                IN  /\ before.stage \in { "package", "followUp" }
                    /\ after.stage = "followUp"
                    /\ after.folder # Undefined
                    /\ IsIndirection(after.folder[1])
                    /\ after.query = FollowUpQuery(before.element, after.folder[1])
                    /\ IsSuffix(<< after.folder[1] >> \o after.pending, queue)
                    /\ Indirections(after.pending) = Indirections(queue) - 1]_vars
    /\ [][(outcome' # Undefined /\ outcome'[1].op = "getChildren"
              /\ outcome'[1].ended) => Arrived = {}]_vars
    /\ [](\A call \in InFlight :
            call.op = "getChildren" =>
                /\ call.frame[1].stage = "folder" => call.frame[1].pending = <<>>
                /\ call.frame[1].stage = "package" => call.frame[1].pending = <<>>)

\* C35 witness: the expansion of a package has returned after a follow-up
\* query whose answer held an indirection node again
C35_Witness ==
    /\ outcome # Undefined
    /\ outcome[1].op = "getChildren"
    /\ outcome[1].ended
    /\ outcome[1].real
    /\ outcome[1].result.kind = "ok"
    /\ outcome[1].response # Undefined
    /\ outcome[1].response[1].status = 200
    /\ outcome[1].frame[1].stage = "followUp"
    /\ LET answer == ParseVirtualFolders(outcome[1].response[1].body, "PACKAGE")
       IN  /\ answer.kind = "ok"
           /\ Indirections(answer.items) > 0
    /\ calls = EmptyBag

\* the passwords setCredentials is called with
Passwords == { login[2] : login \in Logins }

\* the tokens a session may have cached
CachedTokens == { TokenFromResponse(tokenHeader) : tokenHeader \in TokenHeaders }

\* the credentials setCredentials may store for a user name
CredentialsOf ==
    [ user \in { login[1] : login \in Logins } |->
        { EncodeCredentials(user, pass) : pass \in Passwords } ]

\* the sessions a second service may be in that went through the same
\* operations as s with the same user names and other passwords: the same
\* URL and user name, credentials made of the same user name and any
\* password where s has credentials, and any token, as the answers of the
\* server may depend on the password
Twins(s) ==
    [ baseUrl : { s.baseUrl }, username : { s.username },
      credentials : IF s.credentials = "" THEN { "" }
                    ELSE CredentialsOf[s.username[1]],
      csrfToken : CachedTokens ]

\* the session in the successor state
SessionAfter ==
    [ baseUrl |-> baseUrl', credentials |-> credentials',
      csrfToken |-> csrfToken', username |-> username' ]

\* a step takes every twin of the session to a twin of the session after
\* it, when the twin makes the same step with any password: a step that
\* leaves URL, user name and credentials alone, a disconnect(), or a
\* setCredentials(user, pass), which the twin makes with any password
TwinsFollow ==
    \/ /\ baseUrl' = baseUrl
       /\ username' = username
       /\ credentials' = credentials
    \/ /\ SessionAfter = disconnect(Session)
       /\ \A twin \in Twins(Session) : disconnect(twin) \in Twins(SessionAfter)
    \/ \E login \in Logins :
          /\ SessionAfter = setCredentials(Session, login[1], login[2])
          /\ \A twin \in Twins(Session) : \A pass \in Passwords :
                setCredentials(twin, login[1], pass) \in Twins(SessionAfter)

\* C38: getConnectionInfo() does not depend on the passwords handed to
\* setCredentials. Two services that make the same operations with the
\* same user names and any passwords stay twins, and on twins every
\* getConnectionInfo() call returns the same result.
C38_InfoIndependentOfPassword ==
    /\ [](Session \in Twins(Session))
    /\ [][TwinsFollow]_vars
    /\ [][info' # Undefined =>
            \A twin \in Twins(Session) : info' = Some(getConnectionInfo(twin))]_vars

\* C38 witness: getConnectionInfo() has answered on a session whose
\* credentials were set with one of two passwords for the same user, while
\* a token is cached
C38_Witness ==
    /\ info # Undefined
    /\ info[1].isConnected
    /\ info[1].username = Some("u")
    /\ credentials = EncodeCredentials("u", "")
    /\ csrfToken # ""
    /\ EncodeCredentials("u", "p") \in { twin.credentials : twin \in Twins(Session) }

====
